---- MODULE Spec2Model ----
(***************************************************************************)
(* Verification model of the 13F-Tracker front end (src/app.js).           *)
(*                                                                         *)
(* Text is modelled as a sequence of one-character strings, so that the    *)
(* case conversions, regular-expression tests and concatenations of the    *)
(* source are computed character by character.                             *)
(***************************************************************************)
EXTENDS Integers, Sequences, FiniteSets, TLC

VARIABLES
    labelRows,      \* applyUniqueHoldingLabels: the holdings list it works on
    labelsApplied,  \* applyUniqueHoldingLabels: TRUE once it has run
    secFiling,      \* snapshotFromSecFiling: the filing it is given
    voteMaps,       \* state.derivedSecTickerByCode / ByIssuer as [byCode, byIssuer]
    builtSnapshot,  \* snapshotFromSecFiling: <<>> before the call, <<snapshot>> after
    previousHoldings, \* getQuarterChanges: the holdings of the previous quarter's snapshot
    currentHoldings,  \* getQuarterChanges: the holdings of the quarter's snapshot
    changeRows,     \* getQuarterChanges: <<>> before the call, <<rows>> after
    lastAction,     \* per key, the action of the last row emitted in the quarters before
    scaleInput,     \* detectFilingValueScales: the filings it is given
    scaleByQuarter, \* detectFilingValueScales: <<>> before the call, <<scales>> after
    loadStage,      \* loadSecHistoryData: "fetching", "parsing", "loaded" or "failed"
    payload,        \* the managers of the history file; the load step mutates their filings
    secHistoryLoaded,         \* state.secHistoryLoaded
    secHistoryById,           \* state.secHistoryById
    derivedSecTickerByCode,   \* state.derivedSecTickerByCode
    derivedSecTickerByIssuer, \* state.derivedSecTickerByIssuer
    activeInvestorId,         \* state.activeInvestorId
    stateQuarter,             \* state.quarter
    view,                     \* state.view
    catalogTreemapItemsByKey, \* state.catalogTreemapItemsByKey: the keys of the Map
    catalogTreemapFocusKey,   \* state.catalogTreemapFocusKey
    catalogTreemapHoldersByKey, \* state.catalogTreemapItemsByKey: per key, the ids in item.holders
    catalogTreemapFocusInstitutionIds, \* state.catalogTreemapFocusInstitutionIds
    managerMetaById,          \* state.managerMetaById
    expanded,                 \* state.expanded
    snapshotLog,    \* every snapshot built so far: [id, quarter, value_scale of its filing]
    issuerText,     \* normalizeIssuerForTicker: the issuer text it is first given
    issuerKeys,     \* the results of the calls so far, each call given the result before
    styleItem,      \* classifyHoldingStyleBucket: the holding it is given
    styleBucket,    \* classifyHoldingStyleBucket: <<>> before the call, <<bucket>> after
    styleSnapshot,  \* buildStyleProfileFromSnapshot: the holdings of the snapshot it is given
    styleProfile,   \* buildStyleProfileFromSnapshot: <<>> before the call, <<profile>> after
    catalogSnapshots, \* renderCatalogTreemap: per institution, its latest snapshot if any
    catalogItems,   \* renderCatalogTreemap: <<>> before the call, <<items>> after
    radarProfiles,  \* createStyleRadarScale: <<primaryProfile, benchmarkProfile>>
    radarCall,      \* createStyleRadarScale: its arguments gamma and fixedCap
    radarScale,     \* createStyleRadarScale: <<>> before the call, <<scale>> after
    radarTrip,      \* a value given to toScaled, its result, and toRaw of that result
    voteCorpus,     \* buildDerivedSecTickerMaps: the managers it is given
    voteTally,      \* votesByCode and votesByIssuer when the forEach of line 564 is over
    voteWinners,    \* buildDerivedSecTickerMaps: <<>> before the call, <<maps>> after
    tradeCall,      \* inferTradeAmount: its arguments
    tradeAmount     \* inferTradeAmount: <<>> before the call, <<amount>> after

labelVars == <<labelRows, labelsApplied>>
snapshotVars == <<secFiling, voteMaps, builtSnapshot>>
changeVars == <<previousHoldings, currentHoldings, changeRows, lastAction>>
scaleVars == <<scaleInput, scaleByQuarter>>
historyVars == <<payload, secHistoryLoaded, secHistoryById, derivedSecTickerByCode,
                 derivedSecTickerByIssuer, managerMetaById>>
pageVars == <<activeInvestorId, stateQuarter, view, catalogTreemapItemsByKey,
              catalogTreemapFocusKey, snapshotLog, catalogTreemapHoldersByKey,
              catalogTreemapFocusInstitutionIds, expanded>>
appVars == <<loadStage, historyVars, pageVars>>
issuerVars == <<issuerText, issuerKeys>>
styleVars == <<styleItem, styleBucket, styleSnapshot, styleProfile>>
catalogVars == <<catalogSnapshots, catalogItems>>
radarVars == <<radarProfiles, radarCall, radarScale, radarTrip>>
voteVars == <<voteCorpus, voteTally, voteWinners>>
tradeVars == <<tradeCall, tradeAmount>>
moreVars == <<radarVars, voteVars, tradeVars>>
calcVars == <<issuerVars, styleVars, catalogVars, moreVars>>
vars == <<labelVars, snapshotVars, changeVars, scaleVars, appVars, calcVars>>

----------------------------------------------------------------------------
(* Characters and elementary string functions of JavaScript.               *)

UpperChars == <<"A","B","C","D","E","F","G","H","I","J","K","L","M",
                "N","O","P","Q","R","S","T","U","V","W","X","Y","Z">>
LowerChars == <<"a","b","c","d","e","f","g","h","i","j","k","l","m",
                "n","o","p","q","r","s","t","u","v","w","x","y","z">>
DigitChars == {"0","1","2","3","4","5","6","7","8","9"}

Range(f) == {f[i] : i \in DOMAIN f}

MinOf(S) == CHOOSE i \in S : \A j \in S : i <= j
MaxOf(S) == CHOOSE i \in S : \A j \in S : i >= j

\* a sequence given as a function on 1..n, as the tuple of its elements
AsTuple(f) == <<>> \o f

\* F applied to the value of e, which is computed once
WithValue(e, F(_)) == CHOOSE result \in { F(value) : value \in {e} } : TRUE

UpperSet == Range(UpperChars)
LowerSet == Range(LowerChars)

IsUpper(c) == c \in UpperSet
IsLower(c) == c \in LowerSet
IsDigit(c) == c \in DigitChars
\* \w of a JavaScript regular expression
IsWordChar(c) == IsUpper(c) \/ IsLower(c) \/ IsDigit(c) \/ c = "_"
\* \s of a JavaScript regular expression (the model's texts hold no tab or newline)
IsSpace(c) == c = " "

UpperOf(c) == IF IsLower(c) THEN UpperChars[CHOOSE i \in 1..26 : LowerChars[i] = c] ELSE c
LowerOf(c) == IF IsUpper(c) THEN LowerChars[CHOOSE i \in 1..26 : UpperChars[i] = c] ELSE c

ToUpperCase(s) == WithValue(s, LAMBDA text : AsTuple([i \in 1..Len(text) |-> UpperOf(text[i])]))
ToLowerCase(s) == WithValue(s, LAMBDA text : AsTuple([i \in 1..Len(text) |-> LowerOf(text[i])]))

RECURSIVE TrimStart(_)
TrimStart(s) ==
    WithValue(s, LAMBDA text :
        IF text # <<>> /\ IsSpace(Head(text)) THEN TrimStart(Tail(text)) ELSE text)

RECURSIVE TrimEnd(_)
TrimEnd(s) ==
    WithValue(s, LAMBDA text :
        IF text # <<>> /\ IsSpace(text[Len(text)]) THEN TrimEnd(SubSeq(text, 1, Len(text) - 1)) ELSE text)

Trim(s) == TrimEnd(TrimStart(s))

\* s.replace(/\s+/g, " ")
RECURSIVE CollapseSpaces(_)
CollapseSpaces(s) ==
    WithValue(s, LAMBDA text :
    WithValue({i \in 1..Len(text) : IsSpace(text[i])}, LAMBDA spaces :
        IF spaces = {} THEN text
        ELSE SubSeq(text, 1, MinOf(spaces) - 1) \o <<" ">>
                 \o CollapseSpaces(TrimStart(SubSeq(text, MinOf(spaces), Len(text))))))

\* s.replace(/\./g, "-")
DotsToDashes(s) ==
    WithValue(s, LAMBDA text : AsTuple([i \in 1..Len(text) |-> IF text[i] = "." THEN "-" ELSE text[i]]))

\* s.slice(-n)
SliceLast(s, n) == IF Len(s) <= n THEN s ELSE SubSeq(s, Len(s) - n + 1, Len(s))

\* \b before position i of s (i in 1..Len(s)+1)
BoundaryAt(s, i) ==
    LET before == i > 1 /\ IsWordChar(s[i - 1])
        after  == i <= Len(s) /\ IsWordChar(s[i])
    IN  before # after

\* the literal w occurs in s at position i
OccursAt(s, w, i) == i >= 1 /\ i + Len(w) - 1 <= Len(s) /\ SubSeq(s, i, i + Len(w) - 1) = w

\* /\bw\b/ matches at position i
WordAt(s, w, i) == OccursAt(s, w, i) /\ BoundaryAt(s, i) /\ BoundaryAt(s, i + Len(w))

\* /\bw\b/.test(s)
HasWord(s, w) == \E i \in 1..Len(s) : WordAt(s, w, i)

\* the position after the run of white space that starts at i
RECURSIVE SkipSpaces(_, _)
SkipSpaces(s, i) == IF i <= Len(s) /\ IsSpace(s[i]) THEN SkipSpaces(s, i + 1) ELSE i

\* the last position of the maximal run of the characters of set that starts at i
RECURSIVE RunEnd(_, _, _)
RunEnd(s, i, set) == IF i < Len(s) /\ s[i + 1] \in set THEN RunEnd(s, i + 1, set) ELSE i

----------------------------------------------------------------------------
(* Label formatting: src/app.js, lines 121-245.                            *)

ENTITY_SUFFIX_WORDS ==
    { <<"I","N","C">>, <<"I","N","C","O","R","P","O","R","A","T","E","D">>,
      <<"C","O","R","P">>, <<"C","O","R","P","O","R","A","T","I","O","N">>,
      <<"C","O">>, <<"C","O","M","P","A","N","Y">>, <<"P","L","C">>,
      <<"L","L","C">>, <<"L","P">>, <<"L","T","D">>, <<"D","E","L">>,
      <<"D","E","L","A","W","A","R","E">>, <<"N","E","W">> }

WordChars == UpperSet \cup LowerSet \cup DigitChars \cup {"_"}

\* /\bCOM\b(?=\s+(INC|...|NEW)\b)/gi matches at position i
ComBeforeSuffixAt(s, i) ==
    /\ WordAt(ToUpperCase(s), <<"C","O","M">>, i)
    /\ i + 3 <= Len(s) /\ IsSpace(s[i + 3])
    /\ LET p == SkipSpaces(s, i + 3)
       IN  /\ p <= Len(s) /\ IsWordChar(s[p])
           /\ ToUpperCase(SubSeq(s, p, RunEnd(s, p, WordChars))) \in ENTITY_SUFFIX_WORDS

\* s.replace(/\bCOM\b(?=\s+(INC|...|NEW)\b)/gi, "")
RECURSIVE DropComBeforeSuffix(_, _)
DropComBeforeSuffix(s, i) ==
    IF i > Len(s) THEN <<>>
    ELSE IF ComBeforeSuffixAt(s, i) THEN DropComBeforeSuffix(s, i + 3)
         ELSE <<s[i]>> \o DropComBeforeSuffix(s, i + 1)

\* s.replace(/\b(w1|w2|...)\b/gi, "") for the words of drop
RECURSIVE DropWords(_, _, _)
DropWords(s, i, drop) ==
    WithValue(i, LAMBDA from :
        IF from > Len(s) THEN <<>>
        ELSE IF IsWordChar(s[from])
             THEN WithValue(RunEnd(s, from, WordChars), LAMBDA j :
                      LET w == SubSeq(s, from, j)
                      IN  (IF ToUpperCase(w) \in drop THEN <<>> ELSE w) \o DropWords(s, j + 1, drop))
             ELSE <<s[from]>> \o DropWords(s, from + 1, drop))

\* /^[A-Z0-9 .,&'/-]+$/.test(s)
LooksRawSecCasing(s) ==
    /\ s # <<>>
    /\ \A i \in 1..Len(s) :
          IsUpper(s[i]) \/ IsDigit(s[i]) \/ s[i] \in {" ", ".", ",", "&", "'", "/", "-"}

toTitleCase(s) ==
    WithValue(ToLowerCase(s), LAMBDA low :
        AsTuple([i \in 1..Len(low) |->
                     IF i = 1 \/ low[i - 1] = " " THEN UpperOf(low[i]) ELSE low[i]]))

cleanCompanyName(company) ==
    WithValue(Trim(CollapseSpaces(company)), LAMBDA t0 :
    WithValue(DropComBeforeSuffix(t0, 1), LAMBDA t1 :
    WithValue(DropWords(t1, 1, ENTITY_SUFFIX_WORDS), LAMBDA t2 :
    WithValue(Trim(CollapseSpaces(t2)), LAMBDA t3 :
    WithValue(Trim(CollapseSpaces(DropWords(t3, 1, {<<"C","O","M">>}))), LAMBDA t4 :
    WithValue(IF LooksRawSecCasing(t4) THEN toTitleCase(t4) ELSE t4, LAMBDA t5 :
        IF t0 = <<>> THEN <<>>
        ELSE IF t5 # <<>> THEN t5 ELSE Trim(company)))))))

formatAssetLabel(company, ticker) ==
    WithValue(Trim(company), LAMBDA safeCompany :
    WithValue(Trim(ticker), LAMBDA safeTicker :
        IF safeCompany = <<>> /\ safeTicker = <<>> THEN <<"-","-">>
        ELSE IF safeTicker = <<>> THEN safeCompany
        ELSE IF safeCompany = <<>> \/ safeCompany = safeTicker THEN safeTicker
        ELSE safeCompany \o <<" ","(">> \o safeTicker \o <<")">>))

NOTE_DETAIL_CHARS == DigitChars \cup {".", "%", "/", " "}
EXP_DETAIL_CHARS == DigitChars \cup {"/"}

\* /\bw1\s+w2\b/.test(s)
HasWordPair(s, w1, w2) ==
    \E i \in 1..Len(s) :
        /\ OccursAt(s, w1, i) /\ BoundaryAt(s, i)
        /\ i + Len(w1) <= Len(s) /\ IsSpace(s[i + Len(w1)])
        /\ LET q == SkipSpaces(s, i + Len(w1))
           IN  OccursAt(s, w2, q) /\ BoundaryAt(s, q + Len(w2))

\* /\bkw\s+(d[set]+)/ matches at position i, d a digit when digitFirst, else of set
\* (minLen is the least length of the captured group)
DetailAt(s, kw, i, set, digitFirst, minLen) ==
    /\ OccursAt(s, kw, i) /\ BoundaryAt(s, i)
    /\ i + Len(kw) <= Len(s) /\ IsSpace(s[i + Len(kw)])
    /\ LET p == SkipSpaces(s, i + Len(kw))
       IN  /\ p <= Len(s)
           /\ IF digitFirst THEN IsDigit(s[p]) ELSE s[p] \in set
           /\ RunEnd(s, p, set) - p + 1 >= minLen

\* the group captured by the leftmost match of /\bkw\s+(d[set]+)/, <<>> when none
DetailOf(s, kw, set, digitFirst, minLen) ==
    LET hits == {i \in 1..Len(s) : DetailAt(s, kw, i, set, digitFirst, minLen)}
    IN  IF hits = {} THEN <<>>
        ELSE LET p == SkipSpaces(s, MinOf(hits) + Len(kw))
             IN  SubSeq(s, p, RunEnd(s, p, set))

\* /\bW(?:T|TS|ARRANT|\/SH)\b|\*W EXP/.test(s)
LooksWarrant(s) ==
    \/ HasWord(s, <<"W","T">>) \/ HasWord(s, <<"W","T","S">>) \/ HasWord(s, <<"W","A","R","R","A","N","T">>)
    \/ \E i \in 1..Len(s) : OccursAt(s, <<"W","/","S","H">>, i) /\ BoundaryAt(s, i) /\ BoundaryAt(s, i + 4)
    \/ \E i \in 1..Len(s) : OccursAt(s, <<"*","W"," ","E","X","P">>, i)

\* /\bPFD|PREF\b/.test(s)
LooksPreferred(s) ==
    \E i \in 1..Len(s) :
        \/ OccursAt(s, <<"P","F","D">>, i) /\ BoundaryAt(s, i)
        \/ OccursAt(s, <<"P","R","E","F">>, i) /\ BoundaryAt(s, i + 4)

\* the positions after the alternatives of (?:CLASS|CL|SERIES|SER|SHS\s+SER|S) that
\* match at position i, in the order of the alternation
ClassPrefixEnds(s, i) ==
    LET lit(w) == IF OccursAt(s, w, i) THEN <<i + Len(w)>> ELSE <<>>
        shsSer == IF OccursAt(s, <<"S","H","S">>, i) /\ i + 3 <= Len(s) /\ IsSpace(s[i + 3])
                     /\ OccursAt(s, <<"S","E","R">>, SkipSpaces(s, i + 3))
                  THEN <<SkipSpaces(s, i + 3) + 3>> ELSE <<>>
    IN  lit(<<"C","L","A","S","S">>) \o lit(<<"C","L">>) \o lit(<<"S","E","R","I","E","S">>) \o lit(<<"S","E","R">>) \o shsSer \o lit(<<"S">>)

\* \s*([A-Z])\b matches from position e: the position of the letter, 0 when none
ClassLetterPos(s, e) ==
    LET p == SkipSpaces(s, e)
    IN  IF p <= Len(s) /\ IsUpper(s[p]) /\ BoundaryAt(s, p + 1) THEN p ELSE 0

\* the letter captured by the leftmost match of
\* /\b(?:CLASS|CL|SERIES|SER|SHS\s+SER|S)\s*([A-Z])\b/, <<>> when none
ClassLetterOf(s) ==
    LET good(i) == SelectSeq(ClassPrefixEnds(s, i), LAMBDA e : ClassLetterPos(s, e) > 0)
        hits == {i \in 1..Len(s) : BoundaryAt(s, i) /\ good(i) # <<>>}
    IN  IF hits = {} THEN <<>>
        ELSE <<s[ClassLetterPos(s, Head(good(MinOf(hits))))]>>

extractClassTag(securityClass) ==
    WithValue(Trim(securityClass), LAMBDA raw :
    WithValue(ToUpperCase(raw), LAMBDA upper :
    LET note  == DetailOf(upper, <<"N","O","T","E">>, NOTE_DETAIL_CHARS, TRUE, 2)
        wtExp == DetailOf(upper, <<"E","X","P">>, EXP_DETAIL_CHARS, FALSE, 1)
        letter == ClassLetterOf(upper)
    IN  IF raw = <<>> THEN <<>>
        ELSE IF HasWord(upper, <<"N","O","T","E">>)
             THEN IF note # <<>> THEN <<"N","O","T","E"," ">> \o Trim(CollapseSpaces(note)) ELSE <<"N","O","T","E">>
        ELSE IF LooksWarrant(upper)
             THEN IF wtExp # <<>> THEN <<"W","T"," ">> \o wtExp ELSE <<"W","T">>
        ELSE IF HasWord(upper, <<"U","N","I","T">>) THEN <<"U","N","I","T">>
        ELSE IF LooksPreferred(upper) THEN <<"P","F","D">>
        ELSE IF HasWord(upper, <<"A","D","R">>) THEN <<"A","D","R">>
        ELSE IF letter # <<>>
             THEN IF HasWord(upper, <<"F","R","M","L","A">>) THEN letter \o <<" ","(","F","R","M","L","A",")">>
                  ELSE IF HasWordPair(upper, <<"L","B","T","Y">>, <<"L","I","V">>) \/ HasWordPair(upper, <<"L","I","B","E","R","T","Y">>, <<"L","I","V","E">>)
                       THEN letter \o <<" ","(","L","I","V",")">>
                  ELSE IF HasWordPair(upper, <<"L","B","T","Y">>, <<"S","R","M">>) \/ HasWord(upper, <<"S","I","R","I","U","S","X","M">>)
                       THEN letter \o <<" ","(","S","X","M",")">>
                  ELSE IF HasWord(upper, <<"L","I","L","A","C">>) THEN letter \o <<" ","(","L","I","L","A","C",")">>
                  ELSE IF HasWord(upper, <<"M","E","D","I","A">>) THEN letter \o <<" ","(","M","E","D","I","A",")">>
                  ELSE letter
        ELSE <<>>))

\* " · ", the separator of the label segments
SEP == <<" ", "·", " ">>

formatAssetLabelWithClass(company, ticker, securityClass) ==
    WithValue(formatAssetLabel(cleanCompanyName(company), ticker), LAMBDA base :
    WithValue(extractClassTag(securityClass), LAMBDA classTag :
        IF classTag = <<>> THEN base ELSE base \o SEP \o classTag))

\* /^[A-Z0-9]{9}$/.test(s)
LooksCusip(s) == Len(s) = 9 /\ \A i \in 1..9 : IsUpper(s[i]) \/ IsDigit(s[i])

\* formatCusipHint taking the first four characters of a CUSIP
formatCusipHintFirstFour(code) ==
    WithValue(ToUpperCase(Trim(code)), LAMBDA normalized :
        IF normalized = <<>> THEN <<>>
        ELSE IF LooksCusip(normalized) THEN <<"C","U","S","I","P"," ">> \o SubSeq(normalized, 1, 4)
        ELSE IF Len(normalized) > 10 THEN SubSeq(normalized, 1, 10) ELSE normalized)

formatCusipHint(code) ==
    WithValue(ToUpperCase(Trim(code)), LAMBDA normalized :
        IF normalized = <<>> THEN <<>>
        ELSE IF LooksCusip(normalized) THEN <<"C","U","S","I","P"," ">> \o SliceLast(normalized, 4)
        ELSE IF Len(normalized) > 10 THEN SubSeq(normalized, 1, 10) ELSE normalized)

----------------------------------------------------------------------------
(* Label Disambiguator: src/app.js, lines 247-273.                         *)

\* String(n) for n >= 0
RECURSIVE DecimalOf(_)
DecimalOf(n) ==
    LET digit == <<"0","1","2","3","4","5","6","7","8","9">>[(n % 10) + 1]
    IN  IF n < 10 THEN <<digit>> ELSE DecimalOf(n \div 10) \o <<digit>>

\* the loop "while (used.has(candidate))" of lines 265-269
RECURSIVE BumpUntilUnused(_, _, _)
BumpUntilUnused(stem, bump, used) ==
    LET candidate == stem \o <<" ","#">> \o DecimalOf(bump)
    IN  IF candidate \in used THEN BumpUntilUnused(stem, bump + 1, used) ELSE candidate

\* the label the second pass gives to a row whose base label is shared
DisambiguatedLabel(baseLabel, code, used) ==
    WithValue(formatCusipHint(code), LAMBDA hint :
    WithValue(IF hint # <<>> THEN baseLabel \o SEP \o hint
              ELSE baseLabel \o SEP \o <<"H","o","l","d","i","n","g">>, LAMBDA stem :
        IF stem \in used THEN BumpUntilUnused(stem, 2, used) ELSE stem))

\* the second pass (lines 255-272) from row i on; base[j] is the base label of row j
RECURSIVE SecondPass(_, _, _, _)
SecondPass(holdings, base, i, used) ==
    WithValue(used, LAMBDA taken :
        IF i > Len(holdings) THEN <<>>
        ELSE LET shared == Cardinality({j \in 1..Len(base) : base[j] = base[i]}) > 1
             IN  WithValue(IF shared THEN DisambiguatedLabel(base[i], holdings[i].code, taken)
                           ELSE base[i], LAMBDA label :
                     <<label>> \o SecondPass(holdings, base, i + 1, taken \cup {label})))

applyUniqueHoldingLabels(holdings) ==
    WithValue(holdings, LAMBDA rows :
    WithValue(AsTuple([i \in 1..Len(rows) |->
                  formatAssetLabelWithClass(rows[i].company, rows[i].ticker,
                                            rows[i].securityClass)]), LAMBDA base :
    WithValue(SecondPass(rows, base, 1, {}), LAMBDA labels :
        AsTuple([i \in 1..Len(rows) |-> [rows[i] EXCEPT !.displayLabel = labels[i]]]))))

----------------------------------------------------------------------------
(* Identifier Resolver: src/app.js, lines 275-541.                         *)

\* /^[A-Z][A-Z0-9.-]{0,6}$/.test(text)
looksLikeUsTicker(value) ==
    WithValue(ToUpperCase(Trim(value)), LAMBDA text :
        /\ text # <<>>
        /\ Len(text) <= 7
        /\ IsUpper(text[1])
        /\ \A i \in 2..Len(text) : IsUpper(text[i]) \/ IsDigit(text[i]) \/ text[i] \in {".", "-"})

\* table[key] || "" for a table given as a set of <<key, value>> pairs
Lookup(table, key) ==
    IF \E e \in table : e[1] = key THEN (CHOOSE e \in table : e[1] = key)[2] ELSE <<>>

\* the entries of CUSIP_TICKER_OVERRIDES (lines 283-388) the model's codes can hit
CUSIP_TICKER_OVERRIDES ==
    { <<<<"8","8","1","6","0","R","1","0","1">>, <<"T","S","L","A">>>>, <<<<"0","2","0","7","9","K","1","0","7">>, <<"G","O","O","G">>>>, <<<<"8","5","2","0","7","U","1","0","5">>, <<"S">>>> }

\* the entries of ISSUER_TICKER_OVERRIDES (lines 390-462) the model's issuers can hit
ISSUER_TICKER_OVERRIDES ==
    { <<<<"T","W","I","T","T","E","R">>, <<"T","W","T","R">>>>, <<<<"U","S"," ","B","A","N","C","O","R","P">>, <<"U","S","B">>>>, <<<<"L","O","W","E","S"," ","C","O","S">>, <<"L","O","W">>>> }

ISSUER_TICKER_STOPWORDS ==
    {
      <<"I","N","C">>, <<"I","N","C","O","R","P","O","R","A","T","E","D">>, <<"C","O","R","P">>,
      <<"C","O","R","P","O","R","A","T","I","O","N">>, <<"C","O","M","P","A","N","Y">>,
      <<"C","O">>, <<"C","O","S">>, <<"H","O","L","D","I","N","G","S">>,
      <<"H","L","D","G","S">>, <<"L","I","M","I","T","E","D">>, <<"L","T","D">>,
      <<"P","L","C">>, <<"L","L","C">>, <<"L","P">>, <<"S","A">>, <<"N","V">>, <<"A","G">>,
      <<"N","E","W">>, <<"T","H","E">>, <<"G","R","O","U","P">>,
      <<"H","O","L","D","I","N","G">>, <<"T","R","U","S","T">>, <<"E","T","F">>,
      <<"E","T","N">>, <<"C","L">>, <<"C","L","A","S","S">>, <<"C","O","M">>, <<"O","R","D">>,
      <<"S","H","S">>, <<"A","D","R">>, <<"S","P","O","N","S","O","R","E","D">>, <<"D","E">>,
      <<"D","E","L">>, <<"A">>, <<"B">>, <<"C">>, <<"N">>, <<"T","R">>, <<"F","U","N","D">>,
      <<"S","E","R","I","E","S">> }

\* a table in which the replacement of WKS is itself a token the table replaces
ChainedTokenReplacements ==
    { <<<<"W","K","S">>, <<"S","Y","S">>>>,
      <<<<"S","Y","S">>, <<"S","Y","S","T","E","M","S">>>> }

ISSUER_TICKER_TOKEN_REPLACEMENTS ==
    {
      <<<<"I","N","T","L">>, <<"I","N","T","E","R","N","A","T","I","O","N","A","L">>>>,
      <<<<"M","T","R","S">>, <<"M","O","T","O","R","S">>>>,
      <<<<"M","A","T","L","S">>, <<"M","A","T","E","R","I","A","L","S">>>>,
      <<<<"T","E","C","H","S">>, <<"T","E","C","H","N","O","L","O","G","I","E","S">>>>,
      <<<<"P","P","T","Y">>, <<"P","R","O","P","E","R","T","Y">>>>,
      <<<<"F","I","N","L">>, <<"F","I","N","A","N","C","I","A","L">>>>,
      <<<<"S","Y","S">>, <<"S","Y","S","T","E","M","S">>>>,
      <<<<"L","A","B","S">>, <<"L","A","B","O","R","A","T","O","R","I","E","S">>>>,
      <<<<"M","G","M","T">>, <<"M","A","N","A","G","E","M","E","N","T">>>>,
      <<<<"S","V","C","S">>, <<"S","E","R","V","I","C","E","S">>>>,
      <<<<"E","L","E","C">>, <<"E","L","E","C","T","R","I","C">>>>,
      <<<<"W","K","S">>, <<"W","O","R","K","S">>>>,
      <<<<"C","H","E","M","S">>, <<"C","H","E","M","I","C","A","L","S">>>>,
      <<<<"P","R","O","D","S">>, <<"P","R","O","D","U","C","T","S">>>>,
      <<<<"W","H","S","L">>, <<"W","H","O","L","E","S","A","L","E">>>>,
      <<<<"C","T","L","S">>, <<"C","O","N","T","R","O","L","S">>>> }

\* s.replace(/&/g, " AND ")
RECURSIVE ExpandAmpersand(_)
ExpandAmpersand(s) ==
    WithValue(s, LAMBDA text :
    WithValue({i \in 1..Len(text) : text[i] = "&"}, LAMBDA ampersands :
        IF ampersands = {} THEN text
        ELSE SubSeq(text, 1, MinOf(ampersands) - 1) \o <<" ","A","N","D"," ">>
                 \o ExpandAmpersand(SubSeq(text, MinOf(ampersands) + 1, Len(text)))))

\* s.replace(/\([^)]*\)/g, " ") from position i on
RECURSIVE BlankParentheses(_, _)
BlankParentheses(s, i) ==
    WithValue(s, LAMBDA text : WithValue(i, LAMBDA from :
    WithValue({j \in from..Len(text) : text[j] = "(" /\ \E k \in (j + 1)..Len(text) : text[k] = ")"},
              LAMBDA openers :
        IF openers = {} THEN SubSeq(text, from, Len(text))
        ELSE SubSeq(text, from, MinOf(openers) - 1) \o <<" ">>
                 \o BlankParentheses(text, MinOf({k \in (MinOf(openers) + 1)..Len(text) : text[k] = ")"}) + 1))))

\* s.replace(/[\/.,-]+/g, " ") from position i on
RECURSIVE BlankPunctuation(_, _)
BlankPunctuation(s, i) ==
    LET punct == {"/", ".", ",", "-"}
    IN  WithValue(s, LAMBDA text : WithValue(i, LAMBDA from :
        WithValue({j \in from..Len(text) : text[j] \in punct}, LAMBDA marks :
            IF marks = {} THEN SubSeq(text, from, Len(text))
            ELSE SubSeq(text, from, MinOf(marks) - 1) \o <<" ">>
                     \o BlankPunctuation(text, RunEnd(text, MinOf(marks), punct) + 1))))

\* s.split(" ") for s without leading, trailing or repeated blanks
RECURSIVE SplitOnSpace(_)
SplitOnSpace(s) ==
    WithValue(s, LAMBDA text :
    WithValue({i \in 1..Len(text) : text[i] = " "}, LAMBDA blanks :
        IF blanks = {} THEN <<text>>
        ELSE <<SubSeq(text, 1, MinOf(blanks) - 1)>>
                 \o SplitOnSpace(SubSeq(text, MinOf(blanks) + 1, Len(text)))))

\* tokens.join(" ")
RECURSIVE JoinWithSpace(_)
JoinWithSpace(tokens) ==
    WithValue(tokens, LAMBDA words :
        IF words = <<>> THEN <<>>
        ELSE IF Len(words) = 1 THEN words[1]
        ELSE words[1] \o <<" ">> \o JoinWithSpace(Tail(words)))

normalizeIssuerForTicker(value) ==
    WithValue(ExpandAmpersand(ToUpperCase(value)), LAMBDA text :
    WithValue(Trim(CollapseSpaces(BlankPunctuation(BlankParentheses(text, 1), 1))), LAMBDA compact :
    WithValue(SplitOnSpace(compact), LAMBDA split :
    WithValue(AsTuple([i \in 1..Len(split) |->
                  IF Lookup(ISSUER_TICKER_TOKEN_REPLACEMENTS, split[i]) # <<>>
                  THEN Lookup(ISSUER_TICKER_TOKEN_REPLACEMENTS, split[i]) ELSE split[i]]), LAMBDA mapped :
    WithValue(SelectSeq(mapped, LAMBDA t : t # <<>> /\ t \notin ISSUER_TICKER_STOPWORDS), LAMBDA tokens :
        IF compact = <<>> THEN <<>> ELSE Trim(JoinWithSpace(tokens)))))))

----------------------------------------------------------------------------
(* Derived vote maps: src/app.js, lines 543-619.                           *)
(*                                                                         *)
(* A raw holding is a record [code, ticker, issuer, title_of_class,        *)
(* value_usd, shares, weight]; code stands for item.code || item.cusip.    *)
(* An optional number is <<>> when absent (or not a number) and <<n>>      *)
(* when it is the number n.  A Map is a function on its set of keys.       *)

\* map.get(key) || ""
MapGet(map, key) == IF key \in DOMAIN map THEN map[key] ELSE <<>>

\* the order of the characters of a ticker under localeCompare
CollationOrder == <<"-">> \o <<"0","1","2","3","4","5","6","7","8","9">> \o UpperChars
CharRank(c) == CHOOSE i \in 1..Len(CollationOrder) : CollationOrder[i] = c

\* a.localeCompare(b) < 0
RECURSIVE LocaleBefore(_, _)
LocaleBefore(a, b) ==
    IF b = <<>> THEN FALSE
    ELSE IF a = <<>> THEN TRUE
    ELSE IF Head(a) # Head(b) THEN CharRank(Head(a)) < CharRank(Head(b))
    ELSE LocaleBefore(Tail(a), Tail(b))

\* the comparator of lines 548-556 without its last comparison: equal counts and
\* equal lengths compare as equal
VoteBeforeByCountAndLength(t, n, u, m) ==
    IF m # n THEN n > m ELSE Len(t) < Len(u)

\* the comparator of lines 548-556 puts <<t, n>> before <<u, m>>
VoteBefore(t, n, u, m) ==
    IF m # n THEN n > m
    ELSE IF Len(t) # Len(u) THEN Len(t) < Len(u)
    ELSE LocaleBefore(t, u)

bestTickerFromVotes(voteMap) ==
    WithValue(voteMap, LAMBDA votes :
        IF DOMAIN votes = {} THEN <<>>
        ELSE CHOOSE t \in DOMAIN votes :
                 \A u \in DOMAIN votes \ {t} : VoteBefore(t, votes[t], u, votes[u]))

\* the holdings of all filings of all managers, in the order they are visited
RECURSIVE ConcatAll(_)
ConcatAll(seqs) == IF seqs = <<>> THEN <<>> ELSE Head(seqs) \o ConcatAll(Tail(seqs))

AllHoldingsOf(managers) ==
    ConcatAll(AsTuple([m \in 1..Len(managers) |->
        ConcatAll(AsTuple([f \in 1..Len(managers[m].filings) |->
                              managers[m].filings[f].holdings]))]))

\* VotedTicker taking any raw ticker that is not empty
VotedTickerAnyRawTicker(item) ==
    WithValue(ToUpperCase(Trim(item.code)), LAMBDA code :
    WithValue(DotsToDashes(ToUpperCase(Trim(item.ticker))), LAMBDA rawTicker :
    WithValue(DotsToDashes(code), LAMBDA normalizedCode :
    WithValue(Lookup(CUSIP_TICKER_OVERRIDES, code), LAMBDA seededTicker :
        IF seededTicker # <<>> THEN seededTicker
        ELSE IF rawTicker # <<>> THEN rawTicker
        ELSE IF looksLikeUsTicker(normalizedCode) THEN normalizedCode
        ELSE <<>>))))

\* the ticker one holding votes for (lines 567-577), <<>> when it casts no vote
VotedTicker(item) ==
    WithValue(ToUpperCase(Trim(item.code)), LAMBDA code :
    WithValue(DotsToDashes(ToUpperCase(Trim(item.ticker))), LAMBDA rawTicker :
    WithValue(DotsToDashes(code), LAMBDA normalizedCode :
    WithValue(Lookup(CUSIP_TICKER_OVERRIDES, code), LAMBDA seededTicker :
        IF seededTicker # <<>> THEN seededTicker
        ELSE IF looksLikeUsTicker(rawTicker) THEN rawTicker
        ELSE IF looksLikeUsTicker(normalizedCode) THEN normalizedCode
        ELSE <<>>))))

\* the winners of the votes the items cast, grouped by KeyOf(item)
VoteWinners(items, KeyOf(_)) ==
    WithValue([i \in 1..Len(items) |-> VotedTicker(items[i])], LAMBDA ticker :
    WithValue([i \in 1..Len(items) |-> KeyOf(items[i])], LAMBDA key :
    WithValue({i \in 1..Len(items) : ticker[i] # <<>> /\ key[i] # <<>>}, LAMBDA voters :
        LET votes(k) == WithValue({i \in voters : key[i] = k}, LAMBDA of :
                            [t \in {ticker[i] : i \in of} |->
                                Cardinality({i \in of : ticker[i] = t})])
        IN  [k \in {key[i] : i \in voters} |-> bestTickerFromVotes(votes(k))])))

buildDerivedSecTickerMaps(managers) ==
    WithValue(AllHoldingsOf(managers), LAMBDA items :
        [byCode   |-> VoteWinners(items, LAMBDA item : ToUpperCase(Trim(item.code))),
         byIssuer |-> VoteWinners(items, LAMBDA item : normalizeIssuerForTicker(item.issuer))])

----------------------------------------------------------------------------
(* Snapshot Builder: src/app.js, lines 1541-1584.                          *)
(*                                                                         *)
(* Amounts are whole numbers of VALUE_UNIT dollars: value_usd and          *)
(* total_value_usd count them in the payload, and a snapshot's value v (in  *)
(* billions of dollars) is held as v * 1e9 / VALUE_UNIT.                    *)

\* (item.code || item.cusip || item.issuer || "").trim()
HoldingCode(item) == Trim(IF item.code # <<>> THEN item.code ELSE item.issuer)

\* ResolvedTicker with the issuer override table consulted before the vote map by code
ResolvedTickerIssuerFirst(item, byCode, byIssuer) ==
    WithValue(ToUpperCase(HoldingCode(item)), LAMBDA normalizedCode :
    WithValue(normalizeIssuerForTicker(item.issuer), LAMBDA normalizedIssuer :
    WithValue(DotsToDashes(ToUpperCase(Trim(item.ticker))), LAMBDA rawTicker :
    WithValue(DotsToDashes(ToUpperCase(HoldingCode(item))), LAMBDA codeAsTicker :
    WithValue(Lookup(CUSIP_TICKER_OVERRIDES, normalizedCode), LAMBDA overrideTicker :
        IF overrideTicker # <<>> THEN overrideTicker
        ELSE IF looksLikeUsTicker(rawTicker) THEN rawTicker
        ELSE IF looksLikeUsTicker(codeAsTicker) THEN codeAsTicker
        ELSE IF Lookup(ISSUER_TICKER_OVERRIDES, normalizedIssuer) # <<>>
             THEN Lookup(ISSUER_TICKER_OVERRIDES, normalizedIssuer)
        ELSE IF MapGet(byCode, normalizedCode) # <<>> THEN MapGet(byCode, normalizedCode)
        ELSE MapGet(byIssuer, normalizedIssuer))))))

\* the ticker of one raw holding, lines 1547-1561
ResolvedTicker(item, byCode, byIssuer) ==
    WithValue(ToUpperCase(HoldingCode(item)), LAMBDA normalizedCode :
    WithValue(normalizeIssuerForTicker(item.issuer), LAMBDA normalizedIssuer :
    WithValue(DotsToDashes(ToUpperCase(Trim(item.ticker))), LAMBDA rawTicker :
    WithValue(DotsToDashes(ToUpperCase(HoldingCode(item))), LAMBDA codeAsTicker :
    WithValue(Lookup(CUSIP_TICKER_OVERRIDES, normalizedCode), LAMBDA overrideTicker :
        IF overrideTicker # <<>> THEN overrideTicker
        ELSE IF looksLikeUsTicker(rawTicker) THEN rawTicker
        ELSE IF looksLikeUsTicker(codeAsTicker) THEN codeAsTicker
        ELSE IF MapGet(byCode, normalizedCode) # <<>> THEN MapGet(byCode, normalizedCode)
        ELSE IF Lookup(ISSUER_TICKER_OVERRIDES, normalizedIssuer) # <<>>
             THEN Lookup(ISSUER_TICKER_OVERRIDES, normalizedIssuer)
        ELSE MapGet(byIssuer, normalizedIssuer))))))

\* the row built from one raw holding, lines 1545-1572
NormalizedHolding(item, valueScale, byCode, byIssuer) ==
    WithValue(HoldingCode(item), LAMBDA code :
    WithValue(ResolvedTicker(item, byCode, byIssuer), LAMBDA ticker :
        [key           |-> IF code # <<>> THEN code
                           ELSE IF ticker # <<>> THEN ticker
                           ELSE IF item.issuer # <<>> THEN item.issuer ELSE <<"N","/","A">>,
         code          |-> code,
         ticker        |-> ticker,
         company       |-> IF item.issuer # <<>> THEN item.issuer
                           ELSE IF code # <<>> THEN code ELSE <<"N","/","A">>,
         securityClass |-> item.title_of_class,
         weight        |-> IF item.weight # <<>> THEN item.weight[1] ELSE 0,
         value         |-> item.value_usd * valueScale,
         shares        |-> item.shares,
         displayLabel  |-> <<>>]))

\* rows.sort((a, b) => b.value - a.value): a stable sort, largest value first
RECURSIVE InsertByValue(_, _)
InsertByValue(sorted, row) ==
    IF sorted = <<>> THEN <<row>>
    ELSE IF Head(sorted).value >= row.value
         THEN <<Head(sorted)>> \o InsertByValue(Tail(sorted), row)
         ELSE <<row>> \o sorted

RECURSIVE SortByValueDesc(_)
SortByValueDesc(rows) ==
    IF rows = <<>> THEN <<>>
    ELSE InsertByValue(SortByValueDesc(SubSeq(rows, 1, Len(rows) - 1)), rows[Len(rows)])

RECURSIVE SumOfWeights(_)
SumOfWeights(rows) == IF rows = <<>> THEN 0 ELSE Head(rows).weight + SumOfWeights(Tail(rows))

snapshotFromSecFiling(filing, byCode, byIssuer) ==
    LET valueScale == IF filing.value_scale # 0 THEN filing.value_scale ELSE 1
    IN  WithValue(AsTuple([i \in 1..Len(filing.holdings) |->
                      NormalizedHolding(filing.holdings[i], valueScale, byCode, byIssuer)]), LAMBDA built :
        WithValue(applyUniqueHoldingLabels(SortByValueDesc(built)), LAMBDA holdings :
        [holdings   |-> holdings,
         total      |-> filing.total_value_usd * valueScale,
         positions  |-> Len(holdings),
         top3Weight |-> SumOfWeights(SubSeq(holdings, 1, IF Len(holdings) < 3 THEN Len(holdings) ELSE 3)),
         source     |-> "sec"]))

----------------------------------------------------------------------------
(* Change Engine: src/app.js, lines 1594-1753.                             *)
(*                                                                         *)
(* Share counts are whole numbers.  A quotient of the source is held as    *)
(* the fraction [num, den] with den > 0; 0.008 (billions of dollars) is    *)
(* VALUE_FLOOR amounts.  The displayed texts a row copies from its holding *)
(* (ticker, company, securityClass, displayLabel) are left out of a row.   *)

VALUE_FLOOR == 8

Abs(n) == IF n < 0 THEN -n ELSE n
Frac(n, d) == [num |-> n, den |-> d]
FracLess(a, b) == a.num * b.den < b.num * a.den
FracEq(a, b) == a.num * b.den = b.num * a.den

\* snapshot.holdings.find((item) => item.key === holdingKey): <<>> or <<item>>
FindHolding(holdings, holdingKey) ==
    LET hits == {i \in 1..Len(holdings) : holdings[i].key = holdingKey}
    IN  IF hits = {} THEN <<>> ELSE <<holdings[MinOf(hits)]>>

getHoldingValue(holdings, holdingKey) ==
    LET target == FindHolding(holdings, holdingKey)
    IN  IF target # <<>> THEN target[1].value ELSE 0

getHoldingShares(holdings, holdingKey) ==
    LET target == FindHolding(holdings, holdingKey)
    IN  IF target = <<>> THEN <<>> ELSE target[1].shares

\* inferTradeAmount taking the price of the current quarter for an increase and
\* that of the previous quarter for a decrease, with no other price to fall back on
inferTradeAmountNoFallback(currValue, prevValue, currShares, prevShares, shareDelta) ==
    LET zero == Frac(0, 1)
        currPrice == IF currShares[1] > 0 THEN Frac(currValue, currShares[1]) ELSE zero
        prevPrice == IF prevShares[1] > 0 THEN Frac(prevValue, prevShares[1]) ELSE zero
        refPrice  == IF shareDelta > 0 THEN currPrice ELSE prevPrice
    IN  IF currShares = <<>> \/ prevShares = <<>> \/ shareDelta = 0
        THEN Frac(Abs(currValue - prevValue), 1)
        ELSE IF refPrice.num <= 0 THEN Frac(Abs(currValue - prevValue), 1)
        ELSE Frac(Abs(shareDelta) * refPrice.num, refPrice.den)

inferTradeAmount(currValue, prevValue, currShares, prevShares, shareDelta) ==
    LET zero == Frac(0, 1)
        currPrice == IF currShares[1] > 0 THEN Frac(currValue, currShares[1]) ELSE zero
        prevPrice == IF prevShares[1] > 0 THEN Frac(prevValue, prevShares[1]) ELSE zero
        refPrice  == IF shareDelta > 0
                     THEN IF currPrice.num <= 0 /\ prevShares[1] > 0 THEN prevPrice ELSE currPrice
                     ELSE IF prevPrice.num <= 0 /\ currShares[1] > 0 THEN currPrice ELSE prevPrice
    IN  IF currShares = <<>> \/ prevShares = <<>> \/ shareDelta = 0
        THEN Frac(Abs(currValue - prevValue), 1)
        ELSE IF refPrice.num <= 0 THEN Frac(Abs(currValue - prevValue), 1)
        ELSE Frac(Abs(shareDelta) * refPrice.num, refPrice.den)

\* SharesBranchRow with the ratio taken over the current share count
SharesBranchRowRatioOfCurrent(holdingKey, curr, prev, currShares, prevShares) ==
    LET shareDelta   == currShares[1] - prevShares[1]
        direction    == IF shareDelta > 0 THEN 1 ELSE -1
        action       == IF prevShares[1] = 0 /\ currShares[1] > 0 THEN "New"
                        ELSE IF currShares[1] = 0 /\ prevShares[1] > 0 THEN "Exit"
                        ELSE IF shareDelta < 0 THEN "Trim"
                        ELSE "Add"
        changeAmount == inferTradeAmount(curr, prev, currShares, prevShares, shareDelta)
    IN  IF shareDelta = 0 THEN <<>>
        ELSE << [key          |-> holdingKey,
                 action       |-> action,
                 delta        |-> Frac(direction * changeAmount.num, changeAmount.den),
                 direction    |-> direction,
                 changeAmount |-> changeAmount,
                 changeRatio  |-> IF currShares[1] > 0 THEN <<Frac(shareDelta, currShares[1])>>
                                  ELSE <<>>,
                 ratioSource  |-> "shares"] >>

\* SharesBranchRow without the test for a position opened from zero shares
SharesBranchRowNeverNew(holdingKey, curr, prev, currShares, prevShares) ==
    LET shareDelta   == currShares[1] - prevShares[1]
        direction    == IF shareDelta > 0 THEN 1 ELSE -1
        action       == IF currShares[1] = 0 /\ prevShares[1] > 0 THEN "Exit"
                        ELSE IF shareDelta < 0 THEN "Trim"
                        ELSE "Add"
        changeAmount == inferTradeAmount(curr, prev, currShares, prevShares, shareDelta)
    IN  IF shareDelta = 0 THEN <<>>
        ELSE << [key          |-> holdingKey,
                 action       |-> action,
                 delta        |-> Frac(direction * changeAmount.num, changeAmount.den),
                 direction    |-> direction,
                 changeAmount |-> changeAmount,
                 changeRatio  |-> IF prevShares[1] > 0 THEN <<Frac(shareDelta, prevShares[1])>>
                                  ELSE <<>>,
                 ratioSource  |-> "shares"] >>

\* ValueBranchRow skipping a value change of exactly the floor as well
ValueBranchRowFloorInclusive(holdingKey, curr, prev) ==
    LET delta == curr - prev
        ratio == IF prev > 0 THEN <<Frac(delta, prev)>> ELSE <<>>
        kind  == IF prev = 0 /\ curr > 0 THEN [action |-> "New", direction |-> 1, changeRatio |-> <<>>]
                 ELSE IF curr = 0 /\ prev > 0
                      THEN [action |-> "Exit", direction |-> -1, changeRatio |-> <<Frac(-1, 1)>>]
                 ELSE IF delta < 0
                      THEN [action |-> "Trim", direction |-> -1, changeRatio |-> ratio]
                 ELSE [action |-> "Add", direction |-> 1, changeRatio |-> ratio]
    IN  IF Abs(delta) <= VALUE_FLOOR THEN <<>>
        ELSE << [key          |-> holdingKey,
                 action       |-> kind.action,
                 delta        |-> Frac(delta, 1),
                 direction    |-> kind.direction,
                 changeAmount |-> Frac(Abs(delta), 1),
                 changeRatio  |-> kind.changeRatio,
                 ratioSource  |-> "value"] >>

\* the row of one key when both snapshots give its shares (lines 1675-1698): <<>> or <<row>>
SharesBranchRow(holdingKey, curr, prev, currShares, prevShares) ==
    LET shareDelta   == currShares[1] - prevShares[1]
        direction    == IF shareDelta > 0 THEN 1 ELSE -1
        action       == IF prevShares[1] = 0 /\ currShares[1] > 0 THEN "New"
                        ELSE IF currShares[1] = 0 /\ prevShares[1] > 0 THEN "Exit"
                        ELSE IF shareDelta < 0 THEN "Trim"
                        ELSE "Add"
        changeAmount == inferTradeAmount(curr, prev, currShares, prevShares, shareDelta)
    IN  IF shareDelta = 0 THEN <<>>
        ELSE << [key          |-> holdingKey,
                 action       |-> action,
                 delta        |-> Frac(direction * changeAmount.num, changeAmount.den),
                 direction    |-> direction,
                 changeAmount |-> changeAmount,
                 changeRatio  |-> IF prevShares[1] > 0 THEN <<Frac(shareDelta, prevShares[1])>>
                                  ELSE <<>>,
                 ratioSource  |-> "shares"] >>

\* the row of one key when a share count is missing (lines 1699-1720): <<>> or <<row>>
ValueBranchRow(holdingKey, curr, prev) ==
    LET delta == curr - prev
        ratio == IF prev > 0 THEN <<Frac(delta, prev)>> ELSE <<>>
        kind  == IF prev = 0 /\ curr > 0 THEN [action |-> "New", direction |-> 1, changeRatio |-> <<>>]
                 ELSE IF curr = 0 /\ prev > 0
                      THEN [action |-> "Exit", direction |-> -1, changeRatio |-> <<Frac(-1, 1)>>]
                 ELSE IF delta < 0
                      THEN [action |-> "Trim", direction |-> -1, changeRatio |-> ratio]
                 ELSE [action |-> "Add", direction |-> 1, changeRatio |-> ratio]
    IN  IF Abs(delta) < VALUE_FLOOR THEN <<>>
        ELSE << [key          |-> holdingKey,
                 action       |-> kind.action,
                 delta        |-> Frac(delta, 1),
                 direction    |-> kind.direction,
                 changeAmount |-> Frac(Abs(delta), 1),
                 changeRatio  |-> kind.changeRatio,
                 ratioSource  |-> "value"] >>

\* the body of allKeys.forEach (lines 1659-1749) for one key: <<>> or <<row>>
ChangeRowOf(holdingKey, current, previous) ==
    LET curr       == getHoldingValue(current, holdingKey)
        prev       == getHoldingValue(previous, holdingKey)
        currShares == getHoldingShares(current, holdingKey)
        prevShares == getHoldingShares(previous, holdingKey)
    IN  IF currShares # <<>> /\ prevShares # <<>>
        THEN SharesBranchRow(holdingKey, curr, prev, currShares, prevShares)
        ELSE ValueBranchRow(holdingKey, curr, prev)

\* the elements of a Set filled from a sequence, in insertion order
RECURSIVE InsertionOrder(_)
InsertionOrder(seq) ==
    IF seq = <<>> THEN <<>>
    ELSE LET front == InsertionOrder(SubSeq(seq, 1, Len(seq) - 1))
             last  == seq[Len(seq)]
         IN  IF last \in Range(front) THEN front ELSE Append(front, last)

OTHER_KEY == <<"O","T","H","E","R">>

\* allKeys collected in an array instead of a Set: repeated keys stay
AllChangeKeysWithRepeats(current, previous) ==
    SelectSeq(AsTuple([i \in 1..Len(current) |-> current[i].key])
                  \o AsTuple([i \in 1..Len(previous) |-> previous[i].key]),
              LAMBDA k : k # OTHER_KEY)

\* allKeys without allKeys.delete("OTHER")
AllChangeKeysWithOther(current, previous) ==
    InsertionOrder(AsTuple([i \in 1..Len(current) |-> current[i].key])
                       \o AsTuple([i \in 1..Len(previous) |-> previous[i].key]))

\* allKeys of lines 1652-1656, as the sequence forEach visits
AllChangeKeys(current, previous) ==
    SelectSeq(InsertionOrder(AsTuple([i \in 1..Len(current) |-> current[i].key])
                                 \o AsTuple([i \in 1..Len(previous) |-> previous[i].key])),
              LAMBDA k : k # OTHER_KEY)

\* rows.sort((a, b) => b.changeAmount - a.changeAmount): stable, largest amount first
RECURSIVE InsertByAmount(_, _)
InsertByAmount(sorted, row) ==
    IF sorted = <<>> THEN <<row>>
    ELSE IF ~FracLess(Head(sorted).changeAmount, row.changeAmount)
         THEN <<Head(sorted)>> \o InsertByAmount(Tail(sorted), row)
         ELSE <<row>> \o sorted

RECURSIVE SortByAmountDesc(_)
SortByAmountDesc(rows) ==
    IF rows = <<>> THEN <<>>
    ELSE InsertByAmount(SortByAmountDesc(SubSeq(rows, 1, Len(rows) - 1)), rows[Len(rows)])

\* QuarterChangeRows without the sort of line 1751: the rows in the order of the keys
QuarterChangeRowsInKeyOrder(current, previous) ==
    LET keys == AllChangeKeys(current, previous)
    IN  ConcatAll(AsTuple([i \in 1..Len(keys) |-> ChangeRowOf(keys[i], current, previous)]))

\* lines 1652-1752 of getQuarterChanges: the rows for two snapshots' holdings
QuarterChangeRows(current, previous) ==
    LET keys == AllChangeKeys(current, previous)
    IN  SortByAmountDesc(ConcatAll(AsTuple([i \in 1..Len(keys) |->
                                               ChangeRowOf(keys[i], current, previous)])))

----------------------------------------------------------------------------
(* Quarters and the Value-Scale Detector: src/app.js, lines 1-20 and       *)
(* 1508-1539.                                                              *)
(*                                                                         *)
(* A quarter label such as 2016Q1 is the record [year |-> 2016, q |-> 1].  *)
(* A filing is a record [quarter, total_value_usd, value_scale, holdings]; *)
(* value_scale 0 stands for a filing that has no value_scale yet.          *)

START_YEAR == 2016
END_YEAR == 2025

createQuarterRange(startYear, endYear) ==
    AsTuple([i \in 1..((endYear - startYear + 1) * 4) |->
                [year |-> startYear + ((i - 1) \div 4), q |-> ((i - 1) % 4) + 1]])

QUARTERS == createQuarterRange(START_YEAR, END_YEAR)
LATEST_QUARTER == QUARTERS[Len(QUARTERS)]

\* the Map from a label of QUARTERS to its 0-based position
QUARTER_INDEX ==
    [quarter \in Range(QUARTERS) |-> (CHOOSE i \in 1..Len(QUARTERS) : QUARTERS[i] = quarter) - 1]

quarterIndex(quarter) ==
    IF quarter \in DOMAIN QUARTER_INDEX THEN QUARTER_INDEX[quarter] ELSE -1

JUMP_RATIO == 200
LEGACY_SCALE == 1000

\* Array.prototype.sort with the comparator of line 1511: stable, ascending
RECURSIVE InsertByQuarter(_, _)
InsertByQuarter(sorted, filing) ==
    IF sorted = <<>> THEN <<filing>>
    ELSE IF quarterIndex(Head(sorted).quarter) <= quarterIndex(filing.quarter)
         THEN <<Head(sorted)>> \o InsertByQuarter(Tail(sorted), filing)
         ELSE <<filing>> \o sorted

RECURSIVE SortByQuarter(_)
SortByQuarter(filings) ==
    IF filings = <<>> THEN <<>>
    ELSE InsertByQuarter(SortByQuarter(SubSeq(filings, 1, Len(filings) - 1)), filings[Len(filings)])

\* lines 1518-1530: the 0-based index of the first jump, -1 when there is none
PivotIndexOf(ordered) ==
    LET jumps == { idx \in 1..(Len(ordered) - 1) :
                     LET prev == ordered[idx].total_value_usd
                         curr == ordered[idx + 1].total_value_usd
                     IN  prev > 0 /\ curr > 0 /\ curr >= JUMP_RATIO * prev }
    IN  IF jumps = {} THEN -1 ELSE MinOf(jumps)

\* detectFilingValueScales with the filings taken in the order given
detectFilingValueScalesUnsorted(filings) ==
    WithValue(SelectSeq(filings, LAMBDA filing : quarterIndex(filing.quarter) >= 0), LAMBDA ordered :
    WithValue(PivotIndexOf(ordered), LAMBDA pivotIndex :
        [quarter \in {ordered[i].quarter : i \in 1..Len(ordered)} |->
            IF \E idx \in 1..pivotIndex : ordered[idx].quarter = quarter
            THEN LEGACY_SCALE ELSE 1]))

\* the Map from quarter to scale; the set(quarter, 1000) of line 1534 overwrites the 1
detectFilingValueScales(filings) ==
    WithValue(SortByQuarter(SelectSeq(filings,
                                      LAMBDA filing : quarterIndex(filing.quarter) >= 0)), LAMBDA ordered :
    WithValue(PivotIndexOf(ordered), LAMBDA pivotIndex :
        [quarter \in {ordered[i].quarter : i \in 1..Len(ordered)} |->
            IF \E idx \in 1..pivotIndex : ordered[idx].quarter = quarter
            THEN LEGACY_SCALE ELSE 1]))

----------------------------------------------------------------------------
(* History load and page state: src/app.js, lines 1141-1156, 1440-1506,    *)
(* 1586-1592, 2003-2084, 2968-2975, 3086-3097, 3120-3228, 3538-3619 and    *)
(* 3958-3972.                                                              *)
(*                                                                         *)
(* An investor is its id, <<>> standing for null.  The payload is the      *)
(* sequence of its managers [id, filings].  state.secHistoryById maps an   *)
(* id to the Map from a quarter to the position of its filing among that   *)
(* manager's filings: a filing reached through the history is the          *)
(* payload's own object.  Every filing of the payload has a quarter.       *)

\* the ids of two of the INVESTOR_DEFS
INVESTORS == <<"buffett", "soros">>

activeInvestor(activeId) == IF activeId \in Range(INVESTORS) THEN <<activeId>> ELSE <<>>

\* the filings of a manager published without a value_scale
LoadedFilingsUnscaled(filings, scales) == filings

\* filing.value_scale = scaleByQuarter.get(filing.quarter) || 1, lines 2018-2023
LoadedFilings(filings, scales) ==
    WithValue(scales, LAMBDA scaleByQuarterMap :
        AsTuple([i \in 1..Len(filings) |->
                    [filings[i] EXCEPT !.value_scale =
                        IF filings[i].quarter \in DOMAIN scaleByQuarterMap
                        THEN scaleByQuarterMap[filings[i].quarter] ELSE 1]]))

LoadedManagers(managers) ==
    AsTuple([m \in 1..Len(managers) |->
                [managers[m] EXCEPT !.filings =
                    LoadedFilings(managers[m].filings,
                                  detectFilingValueScales(managers[m].filings))]])

\* qMap of lines 2015-2023: a later filing of a quarter replaces an earlier one
QuarterMapOf(filings) ==
    [quarter \in {filings[i].quarter : i \in 1..Len(filings)} |->
        MaxOf({i \in 1..Len(filings) : filings[i].quarter = quarter})]

ManagerOf(managers, id) ==
    managers[MaxOf({m \in 1..Len(managers) : managers[m].id = id})]

\* managerMetaById left as it was
ManagerMetaOfNothing(managers) == <<>>

\* managerMetaById of lines 2014-2026: the last manager of an id
ManagerMetaOf(managers) ==
    [id \in {managers[m].id : m \in 1..Len(managers)} |-> ManagerOf(managers, id)]

\* historyById of lines 2012-2027
HistoryOf(managers) ==
    [id \in {managers[m].id : m \in 1..Len(managers)} |->
        QuarterMapOf(ManagerOf(managers, id).filings)]

\* getSecQuarterFiling reading the managers of the file whether or not the load has
\* published them
getSecQuarterFilingUnguarded(loaded, history, managers, investor, quarter) ==
    WithValue(HistoryOf(managers), LAMBDA quarterMaps :
        IF investor \notin DOMAIN quarterMaps THEN <<>>
        ELSE IF quarter \notin DOMAIN quarterMaps[investor] THEN <<>>
        ELSE <<ManagerOf(managers, investor).filings[quarterMaps[investor][quarter]]>>)

\* <<>> for null, else <<filing>>
getSecQuarterFiling(loaded, history, managers, investor, quarter) ==
    IF ~loaded THEN <<>>
    ELSE IF investor \notin DOMAIN history THEN <<>>
    ELSE IF quarter \notin DOMAIN history[investor] THEN <<>>
    ELSE <<ManagerOf(managers, investor).filings[history[investor][quarter]]>>

RECURSIVE SortQuarters(_)
SortQuarters(quarters) ==
    IF quarters = {} THEN <<>>
    ELSE LET first == CHOOSE quarter \in quarters :
                          \A other \in quarters : quarterIndex(quarter) <= quarterIndex(other)
         IN  <<first>> \o SortQuarters(quarters \ {first})

getAvailableQuartersForInvestor(history, investor) ==
    IF investor = <<>> THEN <<>>
    ELSE IF investor[1] \notin DOMAIN history THEN <<>>
    ELSE SortQuarters({quarter \in DOMAIN history[investor[1]] : quarterIndex(quarter) >= 0})

\* <<>> for null, else <<quarter>>
getLatestQuarterForInvestor(history, investor) ==
    WithValue(getAvailableQuartersForInvestor(history, investor), LAMBDA quarters :
        IF quarters # <<>> THEN <<quarters[Len(quarters)]>> ELSE <<>>)

\* the first of the available quarters instead of the last
LatestQuarterOrFirst(history, investor) ==
    WithValue(getAvailableQuartersForInvestor(history, investor), LAMBDA quarters :
        IF quarters # <<>> THEN quarters[1] ELSE LATEST_QUARTER)

\* availableQuarters.length ? availableQuarters[availableQuarters.length - 1] : LATEST_QUARTER
LatestQuarterOr(history, investor) ==
    WithValue(getLatestQuarterForInvestor(history, investor), LAMBDA latest :
        IF latest # <<>> THEN latest[1] ELSE LATEST_QUARTER)

\* the value of state.quarter after renderQuarterSelector, lines 3561-3578
SelectedQuarter(history, activeId, quarter) ==
    WithValue(getAvailableQuartersForInvestor(history, activeInvestor(activeId)), LAMBDA available :
        LET options == IF available # <<>> THEN Range(available) ELSE {LATEST_QUARTER}
        IN  IF quarter \in options THEN quarter
            ELSE LatestQuarterOr(history, activeInvestor(activeId)))

\* the <<investor, quarter>> pairs getLatestSnapshotForInvestor asks a snapshot for
LatestTargets(history) ==
    { <<id, getLatestQuarterForInvestor(history, <<id>>)[1]>> :
        id \in {i \in Range(INVESTORS) : getLatestQuarterForInvestor(history, <<i>>) # <<>>} }

\* the pairs computeGlobalStyleRadarScaleCap asks a snapshot for, lines 2277-2280
AllTargets(history) ==
    UNION { { <<id, quarter>> : quarter \in Range(getAvailableQuartersForInvestor(history, <<id>>)) } :
            id \in Range(INVESTORS) }

\* the pairs the panels of the detail view ask a snapshot for
DetailTargets(history, activeId, quarter) ==
    IF activeInvestor(activeId) = <<>> THEN {}
    ELSE {<<activeId, quarter>>}
            \cup { <<activeId, available>> :
                     available \in Range(getAvailableQuartersForInvestor(history, <<activeId>>)) }
            \cup (IF quarterIndex(quarter) > 0
                  THEN {<<activeId, QUARTERS[quarterIndex(quarter)]>>} ELSE {})

\* the snapshots getDisplaySnapshot builds for the pairs, as entries of the log
SnapshotsBuilt(loaded, history, managers, targets) ==
    { [id |-> target[1], quarter |-> target[2],
       value_scale |-> getSecQuarterFiling(loaded, history, managers, target[1], target[2])[1].value_scale] :
      target \in { t \in targets :
                     getSecQuarterFiling(loaded, history, managers, t[1], t[2]) # <<>> } }

\* the key of a holding in the treemap, line 3137
TreemapKeyOf(item) ==
    IF ToUpperCase(Trim(item.ticker)) # <<>> THEN ToUpperCase(Trim(item.ticker)) ELSE Trim(item.key)

\* the keys of state.catalogTreemapItemsByKey after renderCatalogTreemap; the model
\* has fewer than 24 keys, so slice(0, 24) keeps them all
CatalogTreemapKeys(loaded, history, managers, byCode, byIssuer) ==
    UNION { WithValue(getSecQuarterFiling(loaded, history, managers, target[1], target[2]), LAMBDA filing :
            WithValue(IF filing = <<>> THEN <<>>
                      ELSE snapshotFromSecFiling(filing[1], byCode, byIssuer).holdings, LAMBDA holdings :
                { TreemapKeyOf(holdings[i]) :
                    i \in {j \in 1..Len(holdings) :
                             holdings[j].key # OTHER_KEY /\ holdings[j].value > 0} })) :
            target \in LatestTargets(history) }

\* per key of state.catalogTreemapItemsByKey the ids of item.holders: the institutions
\* whose latest snapshot has a holding of positive value under the key, lines 3129-3162
CatalogTreemapHolders(loaded, history, managers, byCode, byIssuer) ==
    WithValue(
        UNION { WithValue(getSecQuarterFiling(loaded, history, managers, target[1], target[2]), LAMBDA filing :
                WithValue(IF filing = <<>> THEN <<>>
                          ELSE snapshotFromSecFiling(filing[1], byCode, byIssuer).holdings, LAMBDA holdings :
                    { <<TreemapKeyOf(holdings[i]), target[1]>> :
                        i \in {j \in 1..Len(holdings) :
                                 holdings[j].key # OTHER_KEY /\ holdings[j].value > 0} })) :
                target \in LatestTargets(history) }, LAMBDA held :
        [key \in {pair[1] : pair \in held} |-> {pair[2] : pair \in {q \in held : q[1] = key}}])

\* state.catalogTreemapFocusInstitutionIds after renderCatalogTreemap, lines 3221-3227
KeptFocusIds(focusKey, focusIds, holdersByKey) ==
    IF focusKey # <<>> /\ focusKey \notin DOMAIN holdersByKey THEN {}
    ELSE IF focusKey # <<>> THEN holdersByKey[focusKey]
    ELSE focusIds

\* state.catalogTreemapFocusKey after renderCatalogTreemap, lines 3221-3223
KeptFocus(focusKey, keys) == IF focusKey \in keys THEN focusKey ELSE <<>>

\* what renderAll leaves behind, lines 3958-3972
RenderAll(pageView, loaded, history, managers, byCode, byIssuer, activeId, quarter, focusKey, log) ==
    WithValue(CatalogTreemapKeys(loaded, history, managers, byCode, byIssuer), LAMBDA keys :
    WithValue(IF pageView = "list" THEN quarter
              ELSE SelectedQuarter(history, activeId, quarter), LAMBDA selected :
    WithValue(LatestTargets(history)
                  \cup (IF pageView = "list" THEN {}
                        ELSE DetailTargets(history, activeId, selected)), LAMBDA targets :
        [quarter  |-> selected,
         items    |-> keys,
         holders  |-> CatalogTreemapHolders(loaded, history, managers, byCode, byIssuer),
         focusKey |-> KeptFocus(focusKey, keys),
         log      |-> log \cup SnapshotsBuilt(loaded, history, managers, targets)])))

----------------------------------------------------------------------------
(* Inputs of the label disambiguator.                                      *)

MaxLabelRows == 3

LabelCompanies == { <<"F","O","O"," ","I","N","C">>, <<"F","o","o">> }
LabelTickers == { <<>>, <<"A">> }
LabelClasses == { <<>>, <<"C","L"," ","A">> }
LabelCodes == { <<"A">>, <<"0","0","0","0","0","1","2","3","4">>, <<"0","0","0","0","0","5","6","7","8">> }

LabelRowInputs ==
    [company : LabelCompanies, ticker : LabelTickers, securityClass : LabelClasses,
     code : LabelCodes, displayLabel : {<<>>}]

SeqsUpTo(S, n) == UNION {[1..k -> S] : k \in 0..n}

----------------------------------------------------------------------------
(* Inputs of the snapshot builder.                                         *)

MaxRawHoldings == 2

RawAmounts == { [value_usd |-> 1, shares |-> <<>>, weight |-> <<>>],
                [value_usd |-> 2, shares |-> <<100>>, weight |-> <<50>>] }

RawHoldingsOf(codes, tickers, issuers, classes, amounts) ==
    { [code |-> c, ticker |-> t, issuer |-> i, title_of_class |-> k,
       value_usd |-> a.value_usd, shares |-> a.shares, weight |-> a.weight] :
      c \in codes, t \in tickers, i \in issuers, k \in classes, a \in amounts }

ResolveHoldingInputs ==
    RawHoldingsOf({ <<"8","8","1","6","0","R","1","0","1">>, <<"0","3","7","8","3","3","1","0","0">>, <<"a","a","p","l">>, <<>> },
                  { <<>>, <<"b","r","k",".","b">>, <<"1","X">> },
                  { <<"T","w","i","t","t","e","r",","," ","I","n","c",".">>, <<"A","P","P","L","E"," ","I","N","C">>, <<>> },
                  { <<>> },
                  { [value_usd |-> 2, shares |-> <<100>>, weight |-> <<50>>] })

SnapshotHoldingInputs ==
    RawHoldingsOf({ <<"0","3","7","8","3","3","1","0","0">>, <<>> }, { <<>>, <<"b","r","k",".","b">> }, { <<"A","P","P","L","E"," ","I","N","C">>, <<>> },
                  { <<>>, <<"C","L"," ","A">> }, RawAmounts)

\* holdings of earlier filings, whose votes build the derived maps
VoterPool ==
    { [code |-> <<"0","3","7","8","3","3","1","0","0">>, ticker |-> <<"A","A","P","L">>, issuer |-> <<"A","p","p","l","e"," ","I","n","c",".">>,
       title_of_class |-> <<"C","O","M">>, value_usd |-> 1, shares |-> <<>>, weight |-> <<>>],
      [code |-> <<"9","0","1","8","4","L","1","0","2">>, ticker |-> <<"X">>, issuer |-> <<"T","W","I","T","T","E","R"," ","I","N","C">>,
       title_of_class |-> <<"C","O","M">>, value_usd |-> 1, shares |-> <<>>, weight |-> <<>>] }

SetToSeq(S) == CHOOSE f \in [1..Cardinality(S) -> S] : Range(f) = S

VoteCorpora ==
    { << [id |-> "m", filings |-> << [quarter |-> LATEST_QUARTER, total_value_usd |-> 0, value_scale |-> 1,
                                      holdings |-> SetToSeq(pool)] >>] >> :
      pool \in SUBSET VoterPool }

----------------------------------------------------------------------------
(* Inputs of the change engine.                                            *)

MaxSnapRows == 2

KEY_A == <<"0","3","7","8","3","3","1","0","0">>
KEY_B == <<"5","9","4","9","1","8","1","0","4">>

\* value and share count of a holding: a row's value is 0 exactly when its
\* reported share count is 0
HoldingSizes ==
    { [value |-> 5, shares |-> <<>>], [value |-> 13, shares |-> <<>>],
      [value |-> 0, shares |-> <<0>>], [value |-> 50, shares |-> <<1000>>],
      [value |-> 20, shares |-> <<1000>>], [value |-> 20, shares |-> <<500>>] }

HoldingsOfKey(k, sizes) == { [key |-> k, value |-> z.value, shares |-> z.shares] : z \in sizes }

ChangeHoldingInputs ==
    HoldingsOfKey(KEY_A, HoldingSizes)
        \cup HoldingsOfKey(KEY_B, { [value |-> 13, shares |-> <<>>] })
        \cup HoldingsOfKey(OTHER_KEY, { [value |-> 50, shares |-> <<>>] })

ChangesIdle ==
    /\ previousHoldings = <<>>
    /\ currentHoldings = <<>>
    /\ changeRows = <<>>
    /\ lastAction = <<>>

----------------------------------------------------------------------------
(* Inputs of the Value-Scale Detector.                                     *)

Quarter(year, q) == [year |-> year, q |-> q]

\* four consecutive quarters of QUARTERS and the quarter before the first of them
ScaleQuarters == { Quarter(START_YEAR, q) : q \in 1..4 }
EARLIER_QUARTER == Quarter(START_YEAR - 1, 4)

ScaleTotals == {0, 500, 520, 100000, 610000, 625000}

FilingOf(quarter, total) ==
    [quarter |-> quarter, total_value_usd |-> total, value_scale |-> 0, holdings |-> <<>>]

\* the orders in which a set of quarters can appear in the payload
OrdersOf(quarters) ==
    { order \in [1..Cardinality(quarters) -> quarters] : Range(order) = quarters }

ScaleIdle == scaleInput = <<>> /\ scaleByQuarter = <<>>

----------------------------------------------------------------------------
(* Inputs of the history load.                                             *)

\* the quarters of the payload in the order of the file: one before QUARTERS, two in it
PayloadQuarters == << EARLIER_QUARTER, Quarter(START_YEAR, 1), Quarter(START_YEAR, 2) >>

PayloadTotals == {500, 610000}

APPLE_VOTER ==
    [code |-> <<"0","3","7","8","3","3","1","0","0">>, ticker |-> <<"A","A","P","L">>, issuer |-> <<"A","p","p","l","e"," ","I","n","c",".">>,
     title_of_class |-> <<"C","O","M">>, value_usd |-> 1, shares |-> <<>>, weight |-> <<>>]

APPLE_BARE ==
    [code |-> <<"0","3","7","8","3","3","1","0","0">>, ticker |-> <<>>, issuer |-> <<"A","P","P","L","E"," ","I","N","C">>,
     title_of_class |-> <<"C","O","M">>, value_usd |-> 2, shares |-> <<100>>, weight |-> <<50>>]

TWITTER_VOTER ==
    [code |-> <<"9","0","1","8","4","L","1","0","2">>, ticker |-> <<"X">>, issuer |-> <<"T","W","I","T","T","E","R"," ","I","N","C">>,
     title_of_class |-> <<"C","O","M">>, value_usd |-> 1, shares |-> <<>>, weight |-> <<>>]

PayloadHoldingsOf(quarter) ==
    IF quarter = PayloadQuarters[1] THEN <<TWITTER_VOTER>>
    ELSE IF quarter = PayloadQuarters[2] THEN <<APPLE_VOTER>>
    ELSE <<APPLE_BARE>>

PayloadFiling(quarter, total) ==
    [quarter |-> quarter, total_value_usd |-> total, value_scale |-> 0,
     holdings |-> PayloadHoldingsOf(quarter)]

\* the filings of one manager: any of the payload's quarters, with any of the totals
PayloadFilingLists ==
    UNION { { LET filed == SelectSeq(PayloadQuarters, LAMBDA quarter : quarter \in quarters)
              IN  AsTuple([i \in 1..Len(filed) |-> PayloadFiling(filed[i], totals[filed[i]])]) :
              totals \in [quarters -> PayloadTotals] } :
            quarters \in SUBSET Range(PayloadQuarters) }

SOROS_MANAGER ==
    [id |-> "soros", filings |-> << PayloadFiling(PayloadQuarters[2], 500) >>]

\* the rows a holdings card shows before Expand All, lines 3716 and 3790
EXPAND_ROWS == 15

\* a filing of one record more than a holdings card shows before Expand All
SOROS_LARGE ==
    [id |-> "soros",
     filings |-> << [PayloadFiling(PayloadQuarters[2], 500) EXCEPT
                        !.holdings = AsTuple([i \in 1..(EXPAND_ROWS + 1) |-> APPLE_VOTER])] >>]

Payloads ==
    { <<[id |-> "buffett", filings |-> filings]>> \o others :
        filings \in PayloadFilingLists, others \in {<<>>, <<SOROS_MANAGER>>} }
        \cup { <<SOROS_MANAGER>>, <<SOROS_LARGE>>, <<>> }

\* the page as the script leaves it before the fetch answers, lines 1141-1156 and 4072-4078
PageAtStart ==
    /\ secHistoryLoaded = FALSE
    /\ secHistoryById = <<>>
    /\ derivedSecTickerByCode = <<>>
    /\ derivedSecTickerByIssuer = <<>>
    /\ activeInvestorId = "buffett"
    /\ stateQuarter = LATEST_QUARTER
    /\ view = "list"
    /\ catalogTreemapItemsByKey = {}
    /\ catalogTreemapFocusKey = <<>>
    /\ snapshotLog = {}
    /\ catalogTreemapHoldersByKey = <<>>
    /\ catalogTreemapFocusInstitutionIds = {}
    /\ managerMetaById = <<>>
    /\ expanded = {}

AppIdle == loadStage = "idle" /\ payload = <<>> /\ PageAtStart

\* the derived maps the load step builds from those corpora
DerivedMapChoices == { buildDerivedSecTickerMaps(corpus) : corpus \in VoteCorpora }

SnapshotIdle ==
    /\ secFiling = [quarter |-> LATEST_QUARTER, total_value_usd |-> 0, value_scale |-> 1, holdings |-> <<>>]
    /\ voteMaps = [byCode |-> <<>>, byIssuer |-> <<>>]
    /\ builtSnapshot = <<>>

LabelsIdle == labelRows = <<>> /\ labelsApplied = FALSE

\* the pieces issuer texts are put together from: a stop word, abbreviations the
\* table replaces, a lower-case stop word, a plain token, "&", parentheses,
\* punctuation and a blank
MaxIssuerPieces == 3

IssuerPieces ==
    { <<"A">>, <<"W","K","S">>, <<"s","y","s">>, <<"c","o">>, <<"X">>, <<"&">>,
      <<"(">>, <<")">>, <<".">>, <<"-">>, <<"/">>, <<" ">> }

IssuerIdle == issuerText = <<>> /\ issuerKeys = <<>>

StyleIdle == styleItem = <<>> /\ styleBucket = <<>> /\ styleSnapshot = <<>> /\ styleProfile = <<>>

CatalogIdle == catalogSnapshots = <<>> /\ catalogItems = <<>>

RadarIdle == radarProfiles = <<>> /\ radarCall = <<>> /\ radarScale = <<>> /\ radarTrip = <<>>

VoteIdle == voteCorpus = <<>> /\ voteTally = <<>> /\ voteWinners = <<>>

TradeIdle == tradeCall = <<>> /\ tradeAmount = <<>>

MoreIdle == RadarIdle /\ VoteIdle /\ TradeIdle

CalcIdle == IssuerIdle /\ StyleIdle /\ CatalogIdle /\ MoreIdle

InitLabels ==
    /\ labelRows \in SeqsUpTo(LabelRowInputs, MaxLabelRows)
    /\ labelsApplied = FALSE
    /\ SnapshotIdle
    /\ ChangesIdle
    /\ ScaleIdle
    /\ AppIdle
    /\ CalcIdle

ApplyLabels ==
    /\ ~labelsApplied
    /\ labelRows' = applyUniqueHoldingLabels(labelRows)
    /\ labelsApplied' = TRUE
    /\ UNCHANGED <<snapshotVars, changeVars, scaleVars, appVars, calcVars>>

NextLabels == ApplyLabels

SpecLabels == InitLabels /\ [][NextLabels]_vars

\* C1: after applyUniqueHoldingLabels has run, no two rows of the list have the
\* same displayLabel
C1_LabelsPairwiseDistinct ==
    labelsApplied =>
        \A i, j \in 1..Len(labelRows) :
            i # j => labelRows[i].displayLabel # labelRows[j].displayLabel

----------------------------------------------------------------------------
(* snapshotFromSecFiling on one filing.                                    *)

\* one holding of any code, raw ticker and issuer
InitResolve ==
    /\ \E h \in ResolveHoldingInputs :
           secFiling = [quarter |-> LATEST_QUARTER, total_value_usd |-> h.value_usd, value_scale |-> 1,
                        holdings |-> <<h>>]
    /\ voteMaps \in DerivedMapChoices
    /\ builtSnapshot = <<>>
    /\ LabelsIdle
    /\ ChangesIdle
    /\ ScaleIdle
    /\ AppIdle
    /\ CalcIdle

\* several holdings that may share code, ticker and issuer
InitSnapshot ==
    /\ \E hs \in SeqsUpTo(SnapshotHoldingInputs, MaxRawHoldings), scale \in {0, 1, 1000} :
           secFiling = [quarter |-> LATEST_QUARTER, total_value_usd |-> Len(hs), value_scale |-> scale,
                        holdings |-> hs]
    /\ voteMaps \in DerivedMapChoices
    /\ builtSnapshot = <<>>
    /\ LabelsIdle
    /\ ChangesIdle
    /\ ScaleIdle
    /\ AppIdle
    /\ CalcIdle

BuildSnapshot ==
    /\ builtSnapshot = <<>>
    /\ builtSnapshot' = <<snapshotFromSecFiling(secFiling, voteMaps.byCode, voteMaps.byIssuer)>>
    /\ UNCHANGED <<secFiling, voteMaps, labelVars, changeVars, scaleVars, appVars, calcVars>>

NextSnapshot == BuildSnapshot

SpecResolve == InitResolve /\ [][NextSnapshot]_vars
SpecSnapshot == InitSnapshot /\ [][NextSnapshot]_vars

\* the first non-empty element of a sequence of texts, <<>> when there is none
FirstNonEmpty(texts) ==
    LET full == SelectSeq(texts, LAMBDA t : t # <<>>)
    IN  IF full = <<>> THEN <<>> ELSE Head(full)

\* the ticker the seven rules of the resolver give to a raw holding, rule by rule
C2_ExpectedTicker(item) ==
    LET code      == ToUpperCase(HoldingCode(item))
        rawTicker == DotsToDashes(ToUpperCase(Trim(item.ticker)))
        codeText  == DotsToDashes(code)
        issuerKey == normalizeIssuerForTicker(item.issuer)
    IN  FirstNonEmpty(<< Lookup(CUSIP_TICKER_OVERRIDES, code),
                         IF looksLikeUsTicker(rawTicker) THEN rawTicker ELSE <<>>,
                         IF looksLikeUsTicker(codeText) THEN codeText ELSE <<>>,
                         MapGet(voteMaps.byCode, code),
                         Lookup(ISSUER_TICKER_OVERRIDES, issuerKey),
                         MapGet(voteMaps.byIssuer, issuerKey) >>)

\* C2: every raw holding has a row in the snapshot that carries the ticker of the
\* first matching rule (override by code, raw ticker, code as ticker, vote by code,
\* override by issuer, vote by issuer, else empty); code 88160R101 gives TSLA
C2_TickerByFirstMatchingRule ==
    builtSnapshot # <<>> =>
        \A i \in 1..Len(secFiling.holdings) :
            LET item == secFiling.holdings[i]
            IN  /\ \E j \in 1..Len(builtSnapshot[1].holdings) :
                       /\ builtSnapshot[1].holdings[j].code = HoldingCode(item)
                       /\ builtSnapshot[1].holdings[j].company =
                              (IF item.issuer # <<>> THEN item.issuer
                               ELSE IF HoldingCode(item) # <<>> THEN HoldingCode(item) ELSE <<"N","/","A">>)
                       /\ builtSnapshot[1].holdings[j].ticker = C2_ExpectedTicker(item)
                /\ ToUpperCase(HoldingCode(item)) = <<"8","8","1","6","0","R","1","0","1">> =>
                       \A j \in 1..Len(builtSnapshot[1].holdings) :
                           builtSnapshot[1].holdings[j].code = HoldingCode(item)
                               => builtSnapshot[1].holdings[j].ticker = <<"T","S","L","A">>

\* C2 witness: code 88160R101 resolved to TSLA although the raw ticker looks like a
\* ticker and the vote map by issuer holds another ticker for the issuer
C2_Witness ==
    /\ builtSnapshot # <<>>
    /\ Len(secFiling.holdings) = 1
    /\ secFiling.holdings[1].code = <<"8","8","1","6","0","R","1","0","1">>
    /\ secFiling.holdings[1].ticker = <<"b","r","k",".","b">>
    /\ MapGet(voteMaps.byIssuer, normalizeIssuerForTicker(secFiling.holdings[1].issuer)) = <<"X">>
    /\ builtSnapshot[1].holdings[1].ticker = <<"T","S","L","A">>

\* C9: no two rows of a built snapshot have the same key
C9_KeysPairwiseDistinct ==
    builtSnapshot # <<>> =>
        \A i, j \in 1..Len(builtSnapshot[1].holdings) :
            i # j => builtSnapshot[1].holdings[i].key # builtSnapshot[1].holdings[j].key

----------------------------------------------------------------------------
(* getQuarterChanges on two snapshots.                                     *)

InitChanges ==
    /\ previousHoldings \in SeqsUpTo(ChangeHoldingInputs, MaxSnapRows)
    /\ currentHoldings \in SeqsUpTo(ChangeHoldingInputs, MaxSnapRows)
    /\ changeRows = <<>>
    /\ lastAction = <<>>
    /\ LabelsIdle
    /\ SnapshotIdle
    /\ ScaleIdle
    /\ AppIdle
    /\ CalcIdle

ComputeChanges ==
    /\ changeRows = <<>>
    /\ changeRows' = <<QuarterChangeRows(currentHoldings, previousHoldings)>>
    /\ UNCHANGED <<previousHoldings, currentHoldings, lastAction, labelVars, snapshotVars, scaleVars, appVars, calcVars>>

NextChanges == ComputeChanges

SpecChanges == InitChanges /\ [][NextChanges]_vars

\* the keys of the two snapshots that are compared
ComparedKeys ==
    ({previousHoldings[i].key : i \in 1..Len(previousHoldings)} \cup {currentHoldings[i].key : i \in 1..Len(currentHoldings)})
        \ {OTHER_KEY}

\* the rows returned for a key
RowsOf(k) == SelectSeq(changeRows[1], LAMBDA row : row.key = k)

BothSharesKnown(k) ==
    getHoldingShares(currentHoldings, k) # <<>> /\ getHoldingShares(previousHoldings, k) # <<>>

\* C3: a compared key with numeric shares on both sides has no row when the shares
\* are equal, and otherwise exactly one row: New from zero shares, Exit to zero
\* shares, Trim on a decrease, else Add; changeRatio is shareDelta / previousShares
\* when previousShares > 0, else null; ratioSource is shares
C3_SharesBranch ==
    changeRows # <<>> =>
        \A k \in ComparedKeys :
            BothSharesKnown(k) =>
                LET cs == getHoldingShares(currentHoldings, k)[1]
                    ps == getHoldingShares(previousHoldings, k)[1]
                    rs == RowsOf(k)
                IN  IF cs = ps THEN rs = <<>>
                    ELSE /\ Len(rs) = 1
                         /\ rs[1].action = (IF ps = 0 /\ cs > 0 THEN "New"
                                            ELSE IF cs = 0 /\ ps > 0 THEN "Exit"
                                            ELSE IF cs - ps < 0 THEN "Trim" ELSE "Add")
                         /\ IF ps > 0
                            THEN /\ rs[1].changeRatio # <<>>
                                 /\ FracEq(rs[1].changeRatio[1], Frac(cs - ps, ps))
                            ELSE rs[1].changeRatio = <<>>
                         /\ rs[1].ratioSource = "shares"

\* C3 witness: previous {shares 1000, value 50}, current {shares 0, value 0} gave
\* Exit with changeRatio -1
C3_Witness ==
    /\ changeRows # <<>>
    /\ FindHolding(previousHoldings, KEY_A) = <<[key |-> KEY_A, value |-> 50, shares |-> <<1000>>]>>
    /\ FindHolding(currentHoldings, KEY_A) = <<[key |-> KEY_A, value |-> 0, shares |-> <<0>>]>>
    /\ Len(RowsOf(KEY_A)) = 1
    /\ RowsOf(KEY_A)[1].action = "Exit"
    /\ FracEq(RowsOf(KEY_A)[1].changeRatio[1], Frac(-1, 1))

\* C4: a compared key whose share count is missing on either side has no row when
\* the values differ by less than the floor, and otherwise exactly one row: New
\* from value 0, Exit to value 0, Trim on a decrease, else Add; changeRatio is
\* valueDelta / previousValue when previousValue > 0, else null; changeAmount is
\* |valueDelta|; ratioSource is value
C4_ValueBranch ==
    changeRows # <<>> =>
        \A k \in ComparedKeys :
            ~BothSharesKnown(k) =>
                LET cv == getHoldingValue(currentHoldings, k)
                    pv == getHoldingValue(previousHoldings, k)
                    rs == RowsOf(k)
                IN  IF Abs(cv - pv) < VALUE_FLOOR THEN rs = <<>>
                    ELSE /\ Len(rs) = 1
                         /\ rs[1].action = (IF pv = 0 /\ cv > 0 THEN "New"
                                            ELSE IF cv = 0 /\ pv > 0 THEN "Exit"
                                            ELSE IF cv - pv < 0 THEN "Trim" ELSE "Add")
                         /\ IF pv > 0
                            THEN /\ rs[1].changeRatio # <<>>
                                 /\ FracEq(rs[1].changeRatio[1], Frac(cv - pv, pv))
                            ELSE rs[1].changeRatio = <<>>
                         /\ FracEq(rs[1].changeAmount, Frac(Abs(cv - pv), 1))
                         /\ rs[1].ratioSource = "value"

\* C4 witness: a key absent from the previous snapshot and held without a share
\* count in the current one gave New, and a value change of exactly the floor gave Add
C4_Witness ==
    /\ changeRows # <<>>
    /\ FindHolding(previousHoldings, KEY_B) = <<>>
    /\ FindHolding(currentHoldings, KEY_B) # <<>>
    /\ Len(RowsOf(KEY_B)) = 1 /\ RowsOf(KEY_B)[1].action = "New"
    /\ getHoldingShares(previousHoldings, KEY_A) = <<>>
    /\ getHoldingValue(currentHoldings, KEY_A) - getHoldingValue(previousHoldings, KEY_A) = VALUE_FLOOR
    /\ Len(RowsOf(KEY_A)) = 1 /\ RowsOf(KEY_A)[1].action = "Add"

ActionNames == {"New", "Add", "Trim", "Exit"}

----------------------------------------------------------------------------
(* getQuarterChanges over the consecutive quarters of one investor.        *)

HistoryKeys == {KEY_A, KEY_B}

\* the holdings of one quarter: each key absent or listed once
HistorySnapshots ==
    { a \o b : a \in {<<>>} \cup { <<h>> : h \in HoldingsOfKey(KEY_A, HoldingSizes) },
               b \in {<<>>} \cup { <<h>> : h \in HoldingsOfKey(KEY_B,
                                                { z \in HoldingSizes : z.shares = <<>> }) } }

\* the first filed quarter has no previous snapshot: getQuarterChanges returns []
InitHistory ==
    /\ previousHoldings = <<>>
    /\ currentHoldings \in HistorySnapshots
    /\ changeRows = << <<>> >>
    /\ lastAction = [k \in HistoryKeys |-> [action |-> "", adjacent |-> FALSE]]
    /\ LabelsIdle
    /\ SnapshotIdle
    /\ ScaleIdle
    /\ AppIdle
    /\ CalcIdle

\* the next quarter is filed and its changes against the quarter before are computed
AdvanceQuarter ==
    \E filed \in HistorySnapshots :
        /\ previousHoldings' = currentHoldings
        /\ currentHoldings' = filed
        /\ changeRows' = <<QuarterChangeRows(filed, currentHoldings)>>
        /\ lastAction' = [k \in HistoryKeys |->
                             IF RowsOf(k) # <<>>
                             THEN [action |-> RowsOf(k)[1].action, adjacent |-> TRUE]
                             ELSE [action |-> lastAction[k].action, adjacent |-> FALSE]]
        /\ UNCHANGED <<labelVars, snapshotVars, scaleVars, appVars, calcVars>>

NextHistory == AdvanceQuarter

SpecHistory == InitHistory /\ [][NextHistory]_vars

\* a key is held in a snapshot when its row has a positive value or share count
Held(holdings, k) ==
    \/ getHoldingValue(holdings, k) > 0
    \/ (getHoldingShares(holdings, k) # <<>> /\ getHoldingShares(holdings, k)[1] > 0)

\* the per-transition part of C6: New only for a key not held in the previous
\* quarter, Add and Trim only for a key held in both, Exit only for a key held in
\* the previous quarter and not in the current one
ActionsMatchHeldness ==
    \A k \in HistoryKeys :
        RowsOf(k) # <<>> =>
            LET action == RowsOf(k)[1].action
            IN  /\ action = "New" => ~Held(previousHoldings, k)
                /\ action \in {"Add", "Trim"} =>
                       Held(previousHoldings, k) /\ Held(currentHoldings, k)
                /\ action = "Exit" =>
                       Held(previousHoldings, k) /\ ~Held(currentHoldings, k)

----------------------------------------------------------------------------
(* detectFilingValueScales on the filings of one institution.              *)

InitScale ==
    /\ \E quarters \in SUBSET (ScaleQuarters \cup {EARLIER_QUARTER}) :
           \E order \in OrdersOf(quarters), totals \in [quarters \ {EARLIER_QUARTER} -> ScaleTotals] :
               scaleInput = AsTuple([i \in 1..Len(order) |->
                                FilingOf(order[i], IF order[i] = EARLIER_QUARTER THEN 1
                                                   ELSE totals[order[i]])])
    /\ scaleByQuarter = <<>>
    /\ LabelsIdle
    /\ SnapshotIdle
    /\ ChangesIdle
    /\ AppIdle
    /\ CalcIdle

DetectScales ==
    /\ scaleByQuarter = <<>>
    /\ scaleByQuarter' = <<detectFilingValueScales(scaleInput)>>
    /\ UNCHANGED <<scaleInput, labelVars, snapshotVars, changeVars, appVars, calcVars>>

NextScale == DetectScales

SpecScale == InitScale /\ [][NextScale]_vars

\* the filing of a quarter among filings that have one filing per quarter
FilingAt(filings, quarter) ==
    CHOOSE filing \in Range(filings) : filing.quarter = quarter

\* the quarters of QUARTERS that have a filing
RankedQuarters(filings) ==
    { filings[i].quarter : i \in {j \in 1..Len(filings) : quarterIndex(filings[j].quarter) >= 0} }

\* a quarter whose total and the total of the filed quarter before it are both
\* positive and in a ratio of at least 200
IsJumpQuarter(filings, quarter) ==
    \E before \in RankedQuarters(filings) :
        /\ quarterIndex(before) < quarterIndex(quarter)
        /\ \A other \in RankedQuarters(filings) :
               ~(quarterIndex(before) < quarterIndex(other)
                   /\ quarterIndex(other) < quarterIndex(quarter))
        /\ FilingAt(filings, before).total_value_usd > 0
        /\ FilingAt(filings, quarter).total_value_usd > 0
        /\ FilingAt(filings, quarter).total_value_usd
               >= 200 * FilingAt(filings, before).total_value_usd

\* the pivot: <<>> or <<the earliest jump quarter>>
PivotQuarterOf(filings) ==
    LET jumpQuarters == { quarter \in RankedQuarters(filings) : IsJumpQuarter(filings, quarter) }
    IN  IF jumpQuarters = {} THEN <<>>
        ELSE << CHOOSE quarter \in jumpQuarters :
                   \A other \in jumpQuarters : quarterIndex(quarter) <= quarterIndex(other) >>

----------------------------------------------------------------------------
(* The page from the start of loadSecHistoryData on.                       *)

InitApp ==
    /\ loadStage = "fetching"
    /\ payload \in Payloads
    /\ PageAtStart
    /\ LabelsIdle
    /\ SnapshotIdle
    /\ ChangesIdle
    /\ ScaleIdle
    /\ CalcIdle

idleVars == <<labelVars, snapshotVars, changeVars, scaleVars, calcVars>>

\* the page after renderAll has run on the state a handler leaves
Rendered(pageView, activeId, quarter, focusKey) ==
    \E after \in { RenderAll(pageView, secHistoryLoaded, secHistoryById, payload,
                             derivedSecTickerByCode, derivedSecTickerByIssuer,
                             activeId, quarter, focusKey, snapshotLog) } :
        /\ view' = pageView
        /\ activeInvestorId' = activeId
        /\ stateQuarter' = after.quarter
        /\ catalogTreemapItemsByKey' = after.items
        /\ catalogTreemapFocusKey' = after.focusKey
        /\ snapshotLog' = after.log
        /\ catalogTreemapHoldersByKey' = after.holders
        /\ catalogTreemapFocusInstitutionIds' =
               KeptFocusIds(catalogTreemapFocusKey, catalogTreemapFocusInstitutionIds, after.holders)

\* the fetch answers with resp.ok, line 2008
FetchOk ==
    /\ loadStage = "fetching"
    /\ loadStage' = "parsing"
    /\ UNCHANGED <<historyVars, pageVars, idleVars>>

\* the fetch answers without resp.ok (return, line 2009) or rejects (catch, line 2051)
FetchFails ==
    /\ loadStage = "fetching"
    /\ loadStage' = "failed"
    /\ UNCHANGED <<historyVars, pageVars, idleVars>>

\* resp.json() rejects: catch, line 2051
ParseFails ==
    /\ loadStage = "parsing"
    /\ loadStage' = "failed"
    /\ UNCHANGED <<historyVars, pageVars, idleVars>>

\* resp.json() resolves: lines 2011-2050 run without a break
LoadHistory ==
    /\ loadStage = "parsing"
    /\ \E managers \in {LoadedManagers(payload)} :
       \E history \in {HistoryOf(managers)}, maps \in {buildDerivedSecTickerMaps(managers)} :
       \E activeId \in { IF activeInvestorId \in DOMAIN history THEN activeInvestorId
                         ELSE IF "buffett" \in DOMAIN history THEN "buffett"
                         ELSE IF managers # <<>> THEN managers[1].id ELSE "" } :
       \E quarter \in {LatestQuarterOr(history, activeInvestor(activeId))},
          capLog \in {SnapshotsBuilt(TRUE, history, managers, AllTargets(history))} :
       \E after \in { RenderAll(view, TRUE, history, managers, maps.byCode, maps.byIssuer,
                                 activeId, quarter, catalogTreemapFocusKey,
                                 snapshotLog \cup capLog) } :
           /\ payload' = managers
           /\ secHistoryById' = history
           /\ derivedSecTickerByCode' = maps.byCode
           /\ derivedSecTickerByIssuer' = maps.byIssuer
           /\ secHistoryLoaded' = TRUE
           /\ activeInvestorId' = activeId
           /\ stateQuarter' = after.quarter
           /\ catalogTreemapItemsByKey' = after.items
           /\ catalogTreemapFocusKey' = after.focusKey
           /\ snapshotLog' = after.log
           /\ managerMetaById' = ManagerMetaOf(managers)
           /\ catalogTreemapHoldersByKey' = after.holders
           /\ catalogTreemapFocusInstitutionIds' =
                  KeptFocusIds(catalogTreemapFocusKey, catalogTreemapFocusInstitutionIds, after.holders)
    /\ loadStage' = "loaded"
    /\ UNCHANGED <<view, expanded, idleVars>>

\* a click on the card of an institution, lines 3582-3604
ClickInstitutionOn(investorId) ==
    /\ view = "list"
    /\ Rendered("detail", investorId,
                LatestQuarterOr(secHistoryById, activeInvestor(investorId)),
                catalogTreemapFocusKey)
    /\ expanded' = {}
    /\ UNCHANGED <<loadStage, historyVars, idleVars>>

\* a click on an institution card: the grid has one card per entry of INVESTORS
ClickInstitution ==
    \E investorId \in Range(INVESTORS) : ClickInstitutionOn(investorId)

\* a click on the back button, lines 3606-3612
ClickBack ==
    /\ view = "detail"
    /\ Rendered("list", activeInvestorId, stateQuarter, catalogTreemapFocusKey)
    /\ UNCHANGED <<loadStage, historyVars, expanded, idleVars>>

\* another option of the quarter selector is chosen, lines 3614-3618; the selector
\* is disabled while the investor has no quarter (line 3577)
ChangeQuarter ==
    /\ view = "detail"
    /\ \E quarter \in Range(getAvailableQuartersForInvestor(secHistoryById,
                                                            activeInvestor(activeInvestorId))) :
           /\ quarter # stateQuarter
           /\ Rendered("detail", activeInvestorId, quarter, catalogTreemapFocusKey)
    /\ UNCHANGED <<loadStage, historyVars, expanded, idleVars>>

\* the focus key applyCatalogTreemapFocus sets, line 3087
applyCatalogTreemapFocus(nextKey, itemKeys) ==
    IF nextKey # <<>> /\ nextKey \in itemKeys THEN nextKey ELSE <<>>

\* applyCatalogTreemapFocus and the render after it leaving the focused ids as they were
FocusTreemapStaleIds(nextKey) ==
    \E focusKey \in { applyCatalogTreemapFocus(nextKey, catalogTreemapItemsByKey) },
       keys \in { CatalogTreemapKeys(secHistoryLoaded, secHistoryById, payload,
                                     derivedSecTickerByCode, derivedSecTickerByIssuer) } :
        /\ catalogTreemapItemsByKey' = keys
        /\ catalogTreemapHoldersByKey' =
               CatalogTreemapHolders(secHistoryLoaded, secHistoryById, payload,
                                     derivedSecTickerByCode, derivedSecTickerByIssuer)
        /\ catalogTreemapFocusKey' = KeptFocus(focusKey, keys)
        /\ snapshotLog' = snapshotLog \cup SnapshotsBuilt(secHistoryLoaded, secHistoryById, payload,
                                                          LatestTargets(secHistoryById))
        /\ UNCHANGED <<activeInvestorId, stateQuarter, view, expanded,
                       catalogTreemapFocusInstitutionIds>>

\* applyCatalogTreemapFocus, lines 3086-3097, followed by the two renders it calls
FocusTreemap(nextKey) ==
    \E focusKey \in { applyCatalogTreemapFocus(nextKey, catalogTreemapItemsByKey) },
       keys \in { CatalogTreemapKeys(secHistoryLoaded, secHistoryById, payload,
                                     derivedSecTickerByCode, derivedSecTickerByIssuer) },
       holders \in { CatalogTreemapHolders(secHistoryLoaded, secHistoryById, payload,
                                           derivedSecTickerByCode, derivedSecTickerByIssuer) } :
    \E focusIds \in { IF focusKey # <<>> THEN catalogTreemapHoldersByKey[focusKey] ELSE {} } :
        /\ catalogTreemapItemsByKey' = keys
        /\ catalogTreemapHoldersByKey' = holders
        /\ catalogTreemapFocusKey' = KeptFocus(focusKey, keys)
        /\ catalogTreemapFocusInstitutionIds' = KeptFocusIds(focusKey, focusIds, holders)
        /\ snapshotLog' = snapshotLog \cup SnapshotsBuilt(secHistoryLoaded, secHistoryById, payload,
                                                          LatestTargets(secHistoryById))
        /\ UNCHANGED <<activeInvestorId, stateQuarter, view, expanded>>

\* a click on the cell of a key, lines 3538-3546
ClickTreemapCellOn(key) ==
    /\ view = "list"
    /\ FocusTreemap(IF catalogTreemapFocusKey = key THEN <<>> ELSE key)
    /\ UNCHANGED <<loadStage, historyVars, idleVars>>

\* a click on a cell of the treemap: the cells are those of the items rendered last
ClickTreemapCell ==
    \E key \in catalogTreemapItemsByKey : ClickTreemapCellOn(key)

\* a click on the button that clears the focus, lines 3549-3557
ClearTreemapFocus ==
    /\ view = "list"
    /\ catalogTreemapFocusKey # <<>>
    /\ FocusTreemap(<<>>)
    /\ UNCHANGED <<loadStage, historyVars, idleVars>>

\* a click on Expand All or Collapse, lines 1987-2000; the button is on the card of
\* the active institution when its snapshot has more than 15 company holdings
ToggleExpanded ==
    /\ view = "detail"
    /\ activeInvestor(activeInvestorId) # <<>>
    /\ \E filing \in { getSecQuarterFiling(secHistoryLoaded, secHistoryById, payload,
                                           activeInvestorId, stateQuarter) } :
           /\ filing # <<>>
           /\ Len(SelectSeq(snapshotFromSecFiling(filing[1], derivedSecTickerByCode,
                                                  derivedSecTickerByIssuer).holdings,
                            LAMBDA item : item.key # OTHER_KEY)) > EXPAND_ROWS
    /\ expanded' = IF activeInvestorId \in expanded THEN expanded \ {activeInvestorId}
                   ELSE expanded \cup {activeInvestorId}
    /\ snapshotLog' = snapshotLog
           \cup SnapshotsBuilt(secHistoryLoaded, secHistoryById, payload,
                               {<<activeInvestorId, stateQuarter>>}
                                   \cup (IF quarterIndex(stateQuarter) > 0
                                         THEN {<<activeInvestorId, QUARTERS[quarterIndex(stateQuarter)]>>}
                                         ELSE {}))
    /\ UNCHANGED <<loadStage, historyVars, activeInvestorId, stateQuarter, view,
                   catalogTreemapItemsByKey, catalogTreemapFocusKey, catalogTreemapHoldersByKey,
                   catalogTreemapFocusInstitutionIds, idleVars>>

NextApp ==
    \/ FetchOk
    \/ FetchFails
    \/ ParseFails
    \/ LoadHistory
    \/ ClickInstitution
    \/ ClickBack
    \/ ChangeQuarter
    \/ ClickTreemapCell
    \/ ClearTreemapFocus
    \/ ToggleExpanded

SpecApp == InitApp /\ [][NextApp]_vars

\* a quarter label is earlier than another
QuarterBefore(a, b) == a.year < b.year \/ (a.year = b.year /\ a.q < b.q)

\* the filings have one pivot at most: a quarter such that the filings before it
\* share one value_scale and the filings from it on have value_scale 1
HasSinglePivot(filings) ==
    \/ \A i \in 1..Len(filings) : filings[i].value_scale = 1
    \/ \E p \in 1..Len(filings) :
           /\ \A i, j \in 1..Len(filings) :
                  QuarterBefore(filings[i].quarter, filings[p].quarter)
                      /\ QuarterBefore(filings[j].quarter, filings[p].quarter)
                      => filings[i].value_scale = filings[j].value_scale
           /\ \A i \in 1..Len(filings) :
                  ~QuarterBefore(filings[i].quarter, filings[p].quarter)
                      => filings[i].value_scale = 1

\* C8: after the load has processed the payload, the filings of every institution
\* have one value-scale pivot at most: the same value_scale before it and
\* value_scale 1 from it on
C8_SinglePivotPerInstitution ==
    loadStage = "loaded" =>
        \A m \in 1..Len(payload) : HasSinglePivot(payload[m].filings)

\* C10: no snapshot is built from a filing that has no value_scale yet, and once the
\* history is published no step changes a filing's value_scale or the derived maps
C10_BuildThenFreeze ==
    [][ /\ \A entry \in snapshotLog' : entry.value_scale # 0
        /\ secHistoryLoaded =>
               /\ payload' = payload
               /\ derivedSecTickerByCode' = derivedSecTickerByCode
               /\ derivedSecTickerByIssuer' = derivedSecTickerByIssuer ]_vars

\* C10 witness: the history is published with a rescaled filing and non-empty derived
\* maps, snapshots have been built from it, and the user has opened an institution,
\* picked an earlier quarter, gone back and focused a treemap cell
C10_Witness ==
    /\ loadStage = "loaded"
    /\ \E entry \in snapshotLog : entry.value_scale = 1000
    /\ derivedSecTickerByCode # <<>>
    /\ derivedSecTickerByIssuer # <<>>
    /\ view = "list"
    /\ stateQuarter # LatestQuarterOr(secHistoryById, activeInvestor(activeInvestorId))
    /\ catalogTreemapFocusKey # <<>>

----------------------------------------------------------------------------
(* normalizeIssuerForTicker applied to an issuer text and again to its own *)
(* result.                                                                 *)

InitIssuer ==
    /\ \E pieces \in SeqsUpTo(IssuerPieces, MaxIssuerPieces) : issuerText = ConcatAll(pieces)
    /\ issuerKeys = <<>>
    /\ LabelsIdle
    /\ SnapshotIdle
    /\ ChangesIdle
    /\ ScaleIdle
    /\ AppIdle
    /\ StyleIdle
    /\ CatalogIdle
    /\ MoreIdle

\* the function is given the issuer text first and its last result afterwards
NormalizeIssuer ==
    /\ Len(issuerKeys) < 2
    /\ issuerKeys' = Append(issuerKeys,
                            normalizeIssuerForTicker(IF issuerKeys = <<>> THEN issuerText
                                                     ELSE issuerKeys[Len(issuerKeys)]))
    /\ UNCHANGED <<issuerText, labelVars, snapshotVars, changeVars, scaleVars, appVars,
                   styleVars, catalogVars, moreVars>>

NextIssuer == NormalizeIssuer

SpecIssuer == InitIssuer /\ [][NextIssuer]_vars

\* C11: normalizeIssuerForTicker is idempotent: normalizing the result of a call
\* gives that result again
C11_NormalizeIdempotent ==
    Len(issuerKeys) = 2 => issuerKeys[2] = issuerKeys[1]

\* "WKS&co" is normalized to "WORKS AND", and so is "WORKS AND"
C11_Witness ==
    /\ issuerText = <<"W","K","S","&","c","o">>
    /\ issuerKeys = << <<"W","O","R","K","S"," ","A","N","D">>,
                       <<"W","O","R","K","S"," ","A","N","D">> >>

----------------------------------------------------------------------------
(* Style classification: src/app.js, lines 1201-1393 and 2112-2210.        *)
(*                                                                         *)
(* A bucket is the string of its key; "" stands for the undefined of a     *)
(* failed table lookup.                                                    *)

\* the keys of STYLE_RADAR_AXES, in its order
STYLE_RADAR_AXES ==
    <<"technology", "financials", "consumer", "healthcare", "industrials", "energy", "other">>

\* the entries of STYLE_BUCKET_BY_TICKER (lines 1211-1285) the model's tickers can hit,
\* and some more
STYLE_BUCKET_BY_TICKER ==
    { <<<<"A","A","P","L">>, "technology">>,
      <<<<"M","S","F","T">>, "technology">>,
      <<<<"U">>, "technology">>,
      <<<<"B","A","C">>, "financials">>,
      <<<<"B","R","K","B">>, "financials">>,
      <<<<"B","R","K","-","B">>, "financials">>,
      <<<<"A","M","Z","N">>, "consumer">>,
      <<<<"K","O">>, "consumer">>,
      <<<<"D","V","A">>, "healthcare">>,
      <<<<"G","E","V">>, "industrials">>,
      <<<<"C","V","X">>, "energy">>,
      <<<<"O","X","Y">>, "energy">>,
      <<<<"X","O","M">>, "energy">> }

\* STYLE_BUCKET_KEYWORDS with the energy terms tried before all others
KeywordsEnergyFirst ==
 <<
    [bucket |-> "energy", terms |-> {
           <<"E","N","E","R","G","Y">>, <<"O","I","L">>, <<"P","E","T","R","O","L","E">>,
           <<"N","A","T","U","R","A","L"," ","G","A","S">>, <<"U","T","I","L","I","T","Y">>,
           <<"U","T","I","L","I","T","I","E","S">>, <<"P","O","W","E","R">>,
           <<"S","O","L","A","R">>, <<"R","E","N","E","W","A","B","L","E">>,
           <<"P","I","P","E","L","I","N","E">> }],
    [bucket |-> "financials", terms |-> {
           <<"B","A","N","K">>, <<"B","A","N","C","O","R","P">>,
           <<"F","I","N","A","N","C","I","A","L">>, <<"C","A","P","I","T","A","L">>,
           <<"I","N","S","U","R","A","N","C","E">>, <<"P","A","Y","M","E","N","T">>,
           <<"C","R","E","D","I","T">>, <<"A","S","S","E","T"," ","M","G","M","T">>,
           <<"I","N","V","E","S","T","M","E","N","T">>, <<"B","R","O","K","E","R">>,
           <<"T","R","U","S","T">>, <<"E","T","F">>, <<"F","U","N","D">> }],
    [bucket |-> "healthcare", terms |-> {
           <<"H","E","A","L","T","H">>, <<"P","H","A","R","M","A">>,
           <<"T","H","E","R","A","P","E","U","T">>, <<"B","I","O","T","E","C","H">>,
           <<"B","I","O"," ">>, <<"M","E","D","I","C","A","L">>,
           <<"L","I","F","E"," ","S","C","I">>, <<"D","I","A","G","N","O","S","T">>,
           <<"H","O","S","P","I","T","A","L">>, <<"D","R","U","G">> }],
    [bucket |-> "industrials", terms |-> {
           <<"I","N","D","U","S","T","R","I","A","L">>,
           <<"A","E","R","O","S","P","A","C","E">>, <<"D","E","F","E","N","S","E">>,
           <<"M","A","C","H","I","N">>, <<"R","A","I","L">>,
           <<"L","O","G","I","S","T","I","C","S">>, <<"T","R","A","N","S","P","O","R","T">>,
           <<"C","O","N","S","T","R","U","C","T">>,
           <<"E","N","G","I","N","E","E","R","I","N","G">>,
           <<"I","N","F","R","A","S","T","R","U","C","T">>,
           <<"A","I","R","L","I","N","E","S">>, <<"S","H","I","P","P","I","N","G">> }],
    [bucket |-> "technology", terms |-> {
           <<"T","E","C","H","N","O","L","O","G","Y">>, <<"S","O","F","T","W","A","R","E">>,
           <<"S","E","M","I","C","O","N">>, <<"M","I","C","R","O">>, <<"C","Y","B","E","R">>,
           <<"C","L","O","U","D">>, <<"D","A","T","A">>, <<"I","N","T","E","R","N","E","T">>,
           <<"D","I","G","I","T","A","L">>, <<"E","L","E","C","T","R","O","N">>,
           <<"C","O","M","P","U","T">>, <<"A","I"," ">>,
           <<"A","R","T","I","F","I","C","I","A","L"," ","I","N","T","E","L","L","I","G","E","N","C","E">>,
           <<"P","L","A","T","F","O","R","M">> }],
    [bucket |-> "consumer", terms |-> {
           <<"C","O","N","S","U","M","E","R">>, <<"R","E","T","A","I","L">>,
           <<"E"," ","C","O","M","M","E","R","C","E">>,
           <<"E","-","C","O","M","M","E","R","C","E">>, <<"A","P","P","A","R","E","L">>,
           <<"F","O","O","D">>, <<"B","E","V","E","R","A","G","E">>,
           <<"R","E","S","T","A","U","R","A","N","T">>, <<"H","O","T","E","L">>,
           <<"T","R","A","V","E","L">>, <<"A","U","T","O">>, <<"A","U","T","O","M","O","T">>,
           <<"E","N","T","E","R","T","A","I","N">>, <<"M","E","D","I","A">>,
           <<"S","T","R","E","A","M">>, <<"L","E","I","S","U","R","E">> }]
 >>

STYLE_BUCKET_KEYWORDS ==
 <<
    [bucket |-> "financials", terms |-> {
           <<"B","A","N","K">>, <<"B","A","N","C","O","R","P">>,
           <<"F","I","N","A","N","C","I","A","L">>, <<"C","A","P","I","T","A","L">>,
           <<"I","N","S","U","R","A","N","C","E">>, <<"P","A","Y","M","E","N","T">>,
           <<"C","R","E","D","I","T">>, <<"A","S","S","E","T"," ","M","G","M","T">>,
           <<"I","N","V","E","S","T","M","E","N","T">>, <<"B","R","O","K","E","R">>,
           <<"T","R","U","S","T">>, <<"E","T","F">>, <<"F","U","N","D">> }],
    [bucket |-> "healthcare", terms |-> {
           <<"H","E","A","L","T","H">>, <<"P","H","A","R","M","A">>,
           <<"T","H","E","R","A","P","E","U","T">>, <<"B","I","O","T","E","C","H">>,
           <<"B","I","O"," ">>, <<"M","E","D","I","C","A","L">>,
           <<"L","I","F","E"," ","S","C","I">>, <<"D","I","A","G","N","O","S","T">>,
           <<"H","O","S","P","I","T","A","L">>, <<"D","R","U","G">> }],
    [bucket |-> "energy", terms |-> {
           <<"E","N","E","R","G","Y">>, <<"O","I","L">>, <<"P","E","T","R","O","L","E">>,
           <<"N","A","T","U","R","A","L"," ","G","A","S">>, <<"U","T","I","L","I","T","Y">>,
           <<"U","T","I","L","I","T","I","E","S">>, <<"P","O","W","E","R">>,
           <<"S","O","L","A","R">>, <<"R","E","N","E","W","A","B","L","E">>,
           <<"P","I","P","E","L","I","N","E">> }],
    [bucket |-> "industrials", terms |-> {
           <<"I","N","D","U","S","T","R","I","A","L">>,
           <<"A","E","R","O","S","P","A","C","E">>, <<"D","E","F","E","N","S","E">>,
           <<"M","A","C","H","I","N">>, <<"R","A","I","L">>,
           <<"L","O","G","I","S","T","I","C","S">>, <<"T","R","A","N","S","P","O","R","T">>,
           <<"C","O","N","S","T","R","U","C","T">>,
           <<"E","N","G","I","N","E","E","R","I","N","G">>,
           <<"I","N","F","R","A","S","T","R","U","C","T">>,
           <<"A","I","R","L","I","N","E","S">>, <<"S","H","I","P","P","I","N","G">> }],
    [bucket |-> "technology", terms |-> {
           <<"T","E","C","H","N","O","L","O","G","Y">>, <<"S","O","F","T","W","A","R","E">>,
           <<"S","E","M","I","C","O","N">>, <<"M","I","C","R","O">>, <<"C","Y","B","E","R">>,
           <<"C","L","O","U","D">>, <<"D","A","T","A">>, <<"I","N","T","E","R","N","E","T">>,
           <<"D","I","G","I","T","A","L">>, <<"E","L","E","C","T","R","O","N">>,
           <<"C","O","M","P","U","T">>, <<"A","I"," ">>,
           <<"A","R","T","I","F","I","C","I","A","L"," ","I","N","T","E","L","L","I","G","E","N","C","E">>,
           <<"P","L","A","T","F","O","R","M">> }],
    [bucket |-> "consumer", terms |-> {
           <<"C","O","N","S","U","M","E","R">>, <<"R","E","T","A","I","L">>,
           <<"E"," ","C","O","M","M","E","R","C","E">>,
           <<"E","-","C","O","M","M","E","R","C","E">>, <<"A","P","P","A","R","E","L">>,
           <<"F","O","O","D">>, <<"B","E","V","E","R","A","G","E">>,
           <<"R","E","S","T","A","U","R","A","N","T">>, <<"H","O","T","E","L">>,
           <<"T","R","A","V","E","L">>, <<"A","U","T","O">>, <<"A","U","T","O","M","O","T">>,
           <<"E","N","T","E","R","T","A","I","N">>, <<"M","E","D","I","A">>,
           <<"S","T","R","E","A","M">>, <<"L","E","I","S","U","R","E">> }]
 >>

\* STYLE_BUCKET_BY_TICKER[ticker]
StyleBucketByTicker(ticker) ==
    IF \E e \in STYLE_BUCKET_BY_TICKER : e[1] = ticker
    THEN (CHOOSE e \in STYLE_BUCKET_BY_TICKER : e[1] = ticker)[2] ELSE ""

normalizeTickerForStyle(value) == DotsToDashes(ToUpperCase(Trim(value)))

\* s.replace(/-/g, "")
RemoveDashes(s) == SelectSeq(s, LAMBDA c : c # "-")

\* s.replace(/[^A-Z0-9]+/g, " ") from position i on
RECURSIVE BlankNonAlphanumerics(_, _)
BlankNonAlphanumerics(s, i) ==
    WithValue(s, LAMBDA text : WithValue(i, LAMBDA from :
    WithValue(Range(text) \ (UpperSet \cup DigitChars), LAMBDA others :
    WithValue({j \in from..Len(text) : text[j] \in others}, LAMBDA marks :
        IF marks = {} THEN SubSeq(text, from, Len(text))
        ELSE SubSeq(text, from, MinOf(marks) - 1) \o <<" ">>
                 \o BlankNonAlphanumerics(text, RunEnd(text, MinOf(marks), others) + 1)))))

\* s.includes(w)
Includes(s, w) == \E i \in 1..(Len(s) - Len(w) + 1) : OccursAt(s, w, i)

\* normalizedText of classifyHoldingStyleBucket, lines 2147-2150
NormalizedStyleText(item) ==
    <<" ">> \o Trim(BlankNonAlphanumerics(ToUpperCase(item.company \o <<" ">> \o item.securityClass), 1))
            \o <<" ">>

\* isIndexLike, lines 2153-2155
IsIndexLike(text) ==
    /\ \E marker \in { <<" ","E","T","F"," ">>, <<" ","I","N","D","E","X"," ">>, <<" ","T","R","U","S","T"," ">>, <<" ","F","U","N","D"," ">> } : Includes(text, marker)
    /\ \E marker \in { <<" ","S","P","D","R"," ">>, <<" ","I","S","H","A","R","E","S"," ">>, <<" ","V","A","N","G","U","A","R","D"," ">>, <<" ","I","N","V","E","S","C","O"," ">>,
                       <<" ","C","O","R","E"," ","S"," ","P"," ">>, <<" ","T","O","T","A","L"," ","M","A","R","K","E","T"," ">>, <<" ","I","N","D","E","X"," ">> } : Includes(text, marker)

\* the bucket of an index-like text, lines 2157-2169
IndexLikeBucket(text) ==
    IF Includes(text, <<" ","F","I","N","A","N","C","I","A","L"," ">>) THEN "financials"
    ELSE IF Includes(text, <<" ","E","N","E","R","G","Y"," ">>) \/ Includes(text, <<" ","U","T","I","L","I","T">>) THEN "energy"
    ELSE IF Includes(text, <<" ","T","E","C","H","N","O","L","O","G","Y"," ">>) THEN "technology"
    ELSE IF Includes(text, <<" ","H","E","A","L","T","H","C","A","R","E"," ">>) THEN "healthcare"
    ELSE "other"

\* rule.terms.some(...) of line 2173
RuleMatches(rule, text) ==
    \E term \in rule.terms : Includes(text, <<" ">> \o term \o <<" ">>) \/ Includes(text, term)

\* the loop over STYLE_BUCKET_KEYWORDS, lines 2172-2176: "" when no rule matches
KeywordBucket(text) ==
    WithValue({k \in 1..Len(STYLE_BUCKET_KEYWORDS) : RuleMatches(STYLE_BUCKET_KEYWORDS[k], text)},
              LAMBDA matching :
        IF matching = {} THEN "" ELSE STYLE_BUCKET_KEYWORDS[MinOf(matching)].bucket)

classifyHoldingStyleBucket(item) ==
    WithValue(normalizeTickerForStyle(item.ticker), LAMBDA ticker :
    WithValue(RemoveDashes(ticker), LAMBDA tickerCompact :
    WithValue(normalizeTickerForStyle(item.key), LAMBDA keyTicker :
    WithValue(RemoveDashes(keyTicker), LAMBDA keyCompact :
    WithValue(NormalizedStyleText(item), LAMBDA normalizedText :
        IF ticker # <<>> /\ StyleBucketByTicker(ticker) # "" THEN StyleBucketByTicker(ticker)
        ELSE IF tickerCompact # <<>> /\ StyleBucketByTicker(tickerCompact) # ""
             THEN StyleBucketByTicker(tickerCompact)
        ELSE IF keyTicker # <<>> /\ StyleBucketByTicker(keyTicker) # ""
             THEN StyleBucketByTicker(keyTicker)
        ELSE IF keyCompact # <<>> /\ StyleBucketByTicker(keyCompact) # ""
             THEN StyleBucketByTicker(keyCompact)
        ELSE IF Trim(normalizedText) = <<>> THEN "other"
        ELSE IF IsIndexLike(normalizedText) THEN IndexLikeBucket(normalizedText)
        ELSE IF KeywordBucket(normalizedText) # "" THEN KeywordBucket(normalizedText)
        ELSE "other")))))

----------------------------------------------------------------------------
(* classifyHoldingStyleBucket applied to one holding of a snapshot.        *)

\* raw holdings whose rows reach every rule of the classifier
StyleHoldingInputs ==
    RawHoldingsOf({ <<>>, <<"o","x","y">>, <<"0","3","7","8">> },
                  { <<>>, <<"z","z">>, <<"b","r","k",".","b">>, <<"B","-","A","C">> },
                  { <<>>, <<"E","X","A","M","P","L","E"," ","O","I","L"," ","&"," ","G","A","S"," ","T","R","U","S","T">>, <<"V","a","n","g","u","a","r","d"," ","E","n","e","r","g","y"," ","E","T","F">>, <<"i","S","h","a","r","e","s"," ","C","o","r","e"," ","S","&","P">>,
                    <<"S","P","D","R"," ","H","e","a","l","t","h","c","a","r","e"," ","T","e","c","h","n","o","l","o","g","y">>, <<"A","c","m","e"," ","R","a","i","l"," ","S","o","f","t","w","a","r","e">>, <<"Z","e","t","a">> },
                  { <<>>, <<"C","O","M">>, <<"I","N","D","E","X"," ","F","U","N","D">>, <<"N","O","T","E">> },
                  { [value_usd |-> 2, shares |-> <<100>>, weight |-> <<50>>] })

InitStyle ==
    /\ \E raw \in StyleHoldingInputs : styleItem = NormalizedHolding(raw, 1, <<>>, <<>>)
    /\ styleBucket = <<>>
    /\ styleSnapshot = <<>>
    /\ styleProfile = <<>>
    /\ LabelsIdle
    /\ SnapshotIdle
    /\ ChangesIdle
    /\ ScaleIdle
    /\ AppIdle
    /\ IssuerIdle
    /\ CatalogIdle
    /\ MoreIdle

ClassifyHolding ==
    /\ styleBucket = <<>>
    /\ styleBucket' = <<classifyHoldingStyleBucket(styleItem)>>
    /\ UNCHANGED <<styleItem, styleSnapshot, styleProfile, labelVars, snapshotVars, changeVars,
                   scaleVars, appVars, issuerVars, catalogVars, moreVars>>

NextStyle == ClassifyHolding

SpecStyle == InitStyle /\ [][NextStyle]_vars

\* the bucket the table gives a ticker as it is or, failing that, with "-" removed
BucketLookedUp(value) ==
    LET ticker == normalizeTickerForStyle(value)
    IN  IF StyleBucketByTicker(ticker) # "" THEN StyleBucketByTicker(ticker)
        ELSE StyleBucketByTicker(RemoveDashes(ticker))

\* the buckets whose sub-sector keyword occurs in an index-like text
SubSectorBuckets(text) ==
    { pair[2] : pair \in { pair \in { <<<<" ","F","I","N","A","N","C","I","A","L"," ">>, "financials">>, <<<<" ","E","N","E","R","G","Y"," ">>, "energy">>,
                                      <<<<" ","U","T","I","L","I","T">>, "energy">>, <<<<" ","T","E","C","H","N","O","L","O","G","Y"," ">>, "technology">>,
                                      <<<<" ","H","E","A","L","T","H","C","A","R","E"," ">>, "healthcare">> } :
                           Includes(text, pair[1]) } }

\* the buckets one of whose keyword terms occurs in the text
BucketsWithTermIn(text) ==
    { STYLE_BUCKET_KEYWORDS[k].bucket :
        k \in { k \in DOMAIN STYLE_BUCKET_KEYWORDS :
                  \E term \in STYLE_BUCKET_KEYWORDS[k].terms : Includes(text, term) } }

KeywordPriority == <<"financials", "healthcare", "energy", "industrials", "technology", "consumer">>

FirstInPriority(buckets) ==
    KeywordPriority[MinOf({ i \in DOMAIN KeywordPriority : KeywordPriority[i] \in buckets })]

\* the bucket rules (2) to (4) give a text
BucketOfText(text, bucket) ==
    IF IsIndexLike(text)
    THEN IF SubSectorBuckets(text) = {} THEN bucket = "other" ELSE bucket \in SubSectorBuckets(text)
    ELSE IF BucketsWithTermIn(text) # {} THEN bucket = FirstInPriority(BucketsWithTermIn(text))
    ELSE bucket = "other"

\* C12, as amended: the result is one of the seven buckets, chosen by the first matching
\* rule: (1) the table entry of the ticker, tried as it is and with "-" removed, and then
\* that of the key likewise; (2) for an index-like text the bucket of a sub-sector keyword
\* in it, else other; (3) the first bucket in the order financials, healthcare, energy,
\* industrials, technology, consumer with a term in the text; (4) other
C12_FirstMatchingRule ==
    styleBucket # <<>> =>
        /\ styleBucket[1] \in Range(STYLE_RADAR_AXES)
        /\ IF BucketLookedUp(styleItem.ticker) # "" THEN styleBucket[1] = BucketLookedUp(styleItem.ticker)
           ELSE IF BucketLookedUp(styleItem.key) # "" THEN styleBucket[1] = BucketLookedUp(styleItem.key)
           ELSE BucketOfText(NormalizedStyleText(styleItem), styleBucket[1])

\* C12, as stated: rule (1) looks up the ticker only
C12_TickerLookupOnly ==
    styleBucket # <<>> =>
        /\ styleBucket[1] \in Range(STYLE_RADAR_AXES)
        /\ IF BucketLookedUp(styleItem.ticker) # "" THEN styleBucket[1] = BucketLookedUp(styleItem.ticker)
           ELSE BucketOfText(NormalizedStyleText(styleItem), styleBucket[1])

\* the row of code "oxy" and ticker "zz" is classified by its key, against its text
C12_Witness ==
    /\ styleBucket = <<"energy">>
    /\ styleItem.ticker = <<"Z","Z">>
    /\ styleItem.key = <<"o","x","y">>
    /\ styleItem.company = <<"A","c","m","e"," ","R","a","i","l"," ","S","o","f","t","w","a","r","e">>
    /\ styleItem.securityClass = <<"C","O","M">>

\* C13: a holding with no ticker, issuer text "EXAMPLE OIL & GAS TRUST" and no ETF
\* markers is classified as energy
C13_OilGasTrustIsEnergy ==
    ( /\ styleBucket # <<>>
      /\ styleItem.ticker = <<>>
      /\ styleItem.company = <<"E","X","A","M","P","L","E"," ","O","I","L"," ","&"," ","G","A","S"," ","T","R","U","S","T">>
      /\ styleItem.securityClass = <<>> ) => styleBucket[1] = "energy"

----------------------------------------------------------------------------
(* buildStyleProfileFromSnapshot: src/app.js, lines 2112-2118 and          *)
(* 2182-2210.  Weights are whole numbers of some unit, and a value of the  *)
(* profile is the fraction [num, den], so that the division of line 2207   *)
(* is exact.                                                               *)

\* createStyleBucketTotals
createStyleBucketTotals == [axis \in Range(STYLE_RADAR_AXES) |-> Frac(0, 1)]

\* the holdings the forEach of lines 2189-2200 does not skip, those of key OTHER included
CountedWithOther(holdings) == SelectSeq(holdings, LAMBDA item : item.weight > 0)

\* the holdings the forEach of lines 2189-2200 does not skip
CountedHoldings(holdings) == SelectSeq(holdings, LAMBDA item : item.key # <<"O","T","H","E","R">> /\ item.weight > 0)

\* the sum of weight[i] over the positions i of a set
RECURSIVE WeightOver(_, _)
WeightOver(holdings, positions) ==
    IF positions = {} THEN 0
    ELSE LET i == MinOf(positions) IN holdings[i].weight + WeightOver(holdings, positions \ {i})

buildStyleProfileFromSnapshot(snapshot) ==
    WithValue(CountedHoldings(snapshot.holdings), LAMBDA counted :
    WithValue([i \in DOMAIN counted |-> classifyHoldingStyleBucket(counted[i])], LAMBDA buckets :
    WithValue(SumOfWeights(counted), LAMBDA usedWeight :
        IF usedWeight <= 0 THEN createStyleBucketTotals
        ELSE [axis \in Range(STYLE_RADAR_AXES) |->
                 Frac(WeightOver(counted, {i \in DOMAIN counted : buckets[i] = axis}), usedWeight)])))

----------------------------------------------------------------------------
(* buildStyleProfileFromSnapshot applied to the snapshot of a filing.      *)

MaxStyleHoldings == 2

\* rows of key OTHER or not, of weight positive, negative or absent, of class note or not
ProfileHoldingInputs ==
    RawHoldingsOf({ <<>>, <<"O","T","H","E","R">> }, { <<"x","o","m">> }, { <<"A","c","m","e"," ","B","a","n","k">> }, { <<>> },
                  { [value_usd |-> 2, shares |-> <<>>, weight |-> <<>>],
                    [value_usd |-> 2, shares |-> <<>>, weight |-> <<25>>] })
    \cup
    RawHoldingsOf({ <<>> }, { <<>> }, { <<"A","c","m","e"," ","B","a","n","k">> }, { <<>>, <<"N","O","T","E"," ","1",".","5","%">> },
                  { [value_usd |-> 2, shares |-> <<>>, weight |-> <<25>>],
                    [value_usd |-> 2, shares |-> <<>>, weight |-> <<-10>>] })

InitProfile ==
    /\ \E hs \in SeqsUpTo(ProfileHoldingInputs, MaxStyleHoldings) :
           styleSnapshot = <<snapshotFromSecFiling([quarter |-> LATEST_QUARTER, total_value_usd |-> 0,
                                                    value_scale |-> 1, holdings |-> hs], <<>>, <<>>)>>
    /\ styleItem = <<>>
    /\ styleBucket = <<>>
    /\ styleProfile = <<>>
    /\ LabelsIdle
    /\ SnapshotIdle
    /\ ChangesIdle
    /\ ScaleIdle
    /\ AppIdle
    /\ IssuerIdle
    /\ CatalogIdle
    /\ MoreIdle

BuildStyleProfile ==
    /\ styleSnapshot # <<>>
    /\ styleProfile = <<>>
    /\ styleProfile' = <<buildStyleProfileFromSnapshot(styleSnapshot[1])>>
    /\ UNCHANGED <<styleItem, styleBucket, styleSnapshot, labelVars, snapshotVars, changeVars,
                   scaleVars, appVars, issuerVars, catalogVars, moreVars>>

NextProfile == BuildStyleProfile

SpecProfile == InitProfile /\ [][NextProfile]_vars

\* the positions of the holdings whose key is not OTHER and whose weight is positive
StylePositions(holdings) ==
    { i \in DOMAIN holdings : holdings[i].key # <<"O","T","H","E","R">> /\ holdings[i].weight > 0 }

\* the bucket of each holding
BucketsOf(holdings) == [i \in DOMAIN holdings |-> classifyHoldingStyleBucket(holdings[i])]

EquityPositions(holdings) ==
    { i \in StylePositions(holdings) :
        ~ \E word \in { <<"N","O","T","E">>, <<"B","O","N","D">>, <<"L","O","A","N">> } : HasWord(ToUpperCase(holdings[i].securityClass), word) }

\* C15: a holding whose security class marks a note, bond or loan adds weight to no bucket
\* and is not counted in the total the buckets are divided by
C15_DebtLikeExcluded ==
    styleProfile # <<>> =>
        LET holdings == styleSnapshot[1].holdings
            buckets == BucketsOf(holdings)
            equity == EquityPositions(holdings)
        IN  equity # {} =>
                \A bucket \in DOMAIN styleProfile[1] :
                    styleProfile[1][bucket] = Frac(WeightOver(holdings, {i \in equity : buckets[i] = bucket}),
                                                   WeightOver(holdings, equity))

----------------------------------------------------------------------------
(* Treemap aggregation and heat: src/app.js, lines 3120-3217.              *)
(*                                                                         *)
(* Values and weights are whole numbers of some unit.  A ratio in [0, 1]   *)
(* is held in hundredths, rounded to the nearest; Math.pow(x, e) is the    *)
(* table of its values at the hundredths, rounded likewise.  rawHeat is in *)
(* thousandths and heatScore in hundred-thousandths (100000 is 1, 4500 is  *)
(* the floor 0.045).  The texts an entry carries for display (company,     *)
(* display) are left out.                                                  *)

\* Math.pow(x / 100, 1.8) in hundredths, at position x + 1
POW_COUNT ==
    <<
       0, 0, 0, 0, 0, 0, 1, 1, 1, 1, 2, 2, 2, 3, 3, 3, 4, 4, 5, 5,
       6, 6, 7, 7, 8, 8, 9, 9, 10, 11, 11, 12, 13, 14, 14, 15, 16, 17, 18, 18,
       19, 20, 21, 22, 23, 24, 25, 26, 27, 28, 29, 30, 31, 32, 33, 34, 35, 36, 38, 39,
       40, 41, 42, 44, 45, 46, 47, 49, 50, 51, 53, 54, 55, 57, 58, 60, 61, 62, 64, 65,
       67, 68, 70, 72, 73, 75, 76, 78, 79, 81, 83, 84, 86, 88, 89, 91, 93, 95, 96, 98,
       100 >>

\* Math.pow(x / 100, 1.55) in hundredths, at position x + 1
POW_AVG_WEIGHT ==
    <<
       0, 0, 0, 0, 1, 1, 1, 2, 2, 2, 3, 3, 4, 4, 5, 5, 6, 6, 7, 8,
       8, 9, 10, 10, 11, 12, 12, 13, 14, 15, 15, 16, 17, 18, 19, 20, 21, 21, 22, 23,
       24, 25, 26, 27, 28, 29, 30, 31, 32, 33, 34, 35, 36, 37, 38, 40, 41, 42, 43, 44,
       45, 46, 48, 49, 50, 51, 53, 54, 55, 56, 58, 59, 60, 61, 63, 64, 65, 67, 68, 69,
       71, 72, 74, 75, 76, 78, 79, 81, 82, 83, 85, 86, 88, 89, 91, 92, 94, 95, 97, 98,
       100 >>

\* Math.pow(x / 100, 2.2) in hundredths, at position x + 1
POW_VALUE ==
    <<
       0, 0, 0, 0, 0, 0, 0, 0, 0, 1, 1, 1, 1, 1, 1, 2, 2, 2, 2, 3,
       3, 3, 4, 4, 4, 5, 5, 6, 6, 7, 7, 8, 8, 9, 9, 10, 11, 11, 12, 13,
       13, 14, 15, 16, 16, 17, 18, 19, 20, 21, 22, 23, 24, 25, 26, 27, 28, 29, 30, 31,
       33, 34, 35, 36, 37, 39, 40, 41, 43, 44, 46, 47, 49, 50, 52, 53, 55, 56, 58, 60,
       61, 63, 65, 66, 68, 70, 72, 74, 75, 77, 79, 81, 83, 85, 87, 89, 91, 94, 96, 98,
       100 >>

\* Math.pow(x / 100, 1.68) in hundredths, at position x + 1
POW_CONTRAST ==
    <<
       0, 0, 0, 0, 0, 1, 1, 1, 1, 2, 2, 2, 3, 3, 4, 4, 5, 5, 6, 6,
       7, 7, 8, 8, 9, 10, 10, 11, 12, 12, 13, 14, 15, 16, 16, 17, 18, 19, 20, 21,
       21, 22, 23, 24, 25, 26, 27, 28, 29, 30, 31, 32, 33, 34, 36, 37, 38, 39, 40, 41,
       42, 44, 45, 46, 47, 48, 50, 51, 52, 54, 55, 56, 58, 59, 60, 62, 63, 64, 66, 67,
       69, 70, 72, 73, 75, 76, 78, 79, 81, 82, 84, 85, 87, 89, 90, 92, 93, 95, 97, 98,
       100 >>

HeatUnit == Len(POW_CONTRAST) - 1

\* a / b rounded to the nearest whole number, for a >= 0 and b > 0
RoundDiv(a, b) == (2 * a + b) \div (2 * b)

clamp(value, min, max) == IF value < min THEN min ELSE IF value > max THEN max ELSE value

\* the rows the forEach of lines 3137-3161 works on, in the order it visits them:
\* [id, key, ticker, value, weight]
RECURSIVE CatalogRows(_, _)
CatalogRows(snapshots, i) ==
    IF i > Len(INVESTORS) THEN <<>>
    ELSE WithValue(IF snapshots[i] = <<>> THEN <<>>
                   ELSE SelectSeq(snapshots[i][1].holdings,
                                  LAMBDA item : /\ item.key # OTHER_KEY
                                                /\ item.value > 0
                                                /\ Trim(TreemapKeyOf(item)) # <<>>), LAMBDA kept :
             AsTuple([j \in 1..Len(kept) |->
                         [id |-> INVESTORS[i], key |-> Trim(TreemapKeyOf(kept[j])),
                          ticker |-> ToUpperCase(Trim(kept[j].ticker)),
                          value |-> kept[j].value, weight |-> kept[j].weight]])
                 \o CatalogRows(snapshots, i + 1))

\* coveredInstitutions, lines 3127-3134
CoveredInstitutions(snapshots) == Cardinality({i \in DOMAIN snapshots : snapshots[i] # <<>>})

\* the elements of a sequence without those that repeat an earlier one
RECURSIVE FirstOccurrences(_)
FirstOccurrences(seq) ==
    IF seq = <<>> THEN <<>>
    ELSE WithValue(FirstOccurrences(SubSeq(seq, 1, Len(seq) - 1)), LAMBDA before :
             IF seq[Len(seq)] \in Range(before) THEN before ELSE Append(before, seq[Len(seq)]))

RECURSIVE SumOfValues(_)
SumOfValues(rows) == IF rows = <<>> THEN 0 ELSE Head(rows).value + SumOfValues(Tail(rows))

\* holders.sort((a, b) => b.value - a.value)
RECURSIVE SortHolders(_)
SortHolders(holders) ==
    IF holders = <<>> THEN <<>>
    ELSE InsertByValue(SortHolders(SubSeq(holders, 1, Len(holders) - 1)), holders[Len(holders)])

\* item.weightSum / avgWeightDenominator with the institutions of the entry as denominator
AvgWeightOverHolders(weightSum, institutions, coveredInstitutions) ==
    Frac(weightSum, IF institutions > 1 THEN institutions ELSE 1)

\* item.weightSum / avgWeightDenominator, lines 3163 and 3166
AvgWeight(weightSum, institutions, coveredInstitutions) ==
    Frac(weightSum, IF coveredInstitutions > 1 THEN coveredInstitutions ELSE 1)

\* one entry of rawItems, lines 3145-3170
RawItemOf(key, rows, coveredInstitutions) ==
    WithValue(SelectSeq(rows, LAMBDA row : row.key = key), LAMBDA mine :
    WithValue(FirstOccurrences(AsTuple([j \in 1..Len(mine) |-> mine[j].id])), LAMBDA ids :
        [key          |-> key,
         ticker       |-> IF mine[1].ticker # <<>> THEN mine[1].ticker ELSE key,
         value        |-> SumOfValues(mine),
         weightSum    |-> SumOfWeights(mine),
         avgWeight    |-> AvgWeight(SumOfWeights(mine), Len(ids), coveredInstitutions),
         institutions |-> Len(ids),
         holders      |-> SortHolders(AsTuple([h \in 1..Len(ids) |->
                              [id |-> ids[h],
                               value |-> SumOfValues(SelectSeq(mine, LAMBDA row : row.id = ids[h]))]]))]))

\* rawItems, lines 3164-3170, in the order of the Map
RawItems(snapshots) ==
    WithValue(CatalogRows(snapshots, 1), LAMBDA rows :
    WithValue(FirstOccurrences(AsTuple([j \in 1..Len(rows) |-> rows[j].key])), LAMBDA keys :
        AsTuple([k \in 1..Len(keys) |-> RawItemOf(keys[k], rows, CoveredInstitutions(snapshots))])))

\* items.reduce((max, item) => Math.max(max, item.field || 0), 0) || 1
MaxOrOne(numbers) ==
    WithValue(MaxOf(Range(numbers) \cup {0}), LAMBDA max : IF max = 0 THEN 1 ELSE max)

\* rawHeat of an item, lines 3176-3184, in thousandths
RawHeatOf(item, maxInstitutions, maxWeightSum, maxValue) ==
    LET countNorm     == RoundDiv(HeatUnit * item.institutions, maxInstitutions)
        avgWeightNorm == IF item.weightSum <= 0 THEN 0
                         ELSE RoundDiv(HeatUnit * item.weightSum, maxWeightSum)
        valueNorm     == RoundDiv(HeatUnit * item.value, maxValue)
    IN  3 * POW_COUNT[clamp(countNorm, 0, HeatUnit) + 1]
            + 4 * POW_AVG_WEIGHT[clamp(avgWeightNorm, 0, HeatUnit) + 1]
            + 3 * POW_VALUE[clamp(valueNorm, 0, HeatUnit) + 1]

\* scoredItems, lines 3172-3196
ScoredItems(rawItems) ==
    WithValue(MaxOrOne(AsTuple([k \in 1..Len(rawItems) |-> rawItems[k].institutions])), LAMBDA maxInstitutions :
    WithValue(MaxOrOne(AsTuple([k \in 1..Len(rawItems) |-> rawItems[k].weightSum])), LAMBDA maxWeightSum :
    WithValue(MaxOrOne(AsTuple([k \in 1..Len(rawItems) |-> rawItems[k].value])), LAMBDA maxValue :
        AsTuple([k \in 1..Len(rawItems) |->
            rawItems[k] @@
            [rawHeat |-> RawHeatOf(rawItems[k], maxInstitutions, maxWeightSum, maxValue)]]))))

\* heatScore without the floor: contrasted alone
HeatScoreNoFloor(contrasted) == contrasted * (HeatUnit * 10)

\* heatFloor + contrasted * (1 - heatFloor), line 3211, in hundred-thousandths
HeatScoreOf(contrasted) == 4500 + contrasted * 955

\* the comparison of the sort of line 3214: a goes before b
HotterThan(a, b) ==
    \/ a.heatScore > b.heatScore
    \/ /\ a.heatScore = b.heatScore
       /\ \/ a.institutions > b.institutions
          \/ /\ a.institutions = b.institutions
             /\ \/ a.weightSum > b.weightSum
                \/ a.weightSum = b.weightSum /\ a.value > b.value

RECURSIVE InsertByHeat(_, _)
InsertByHeat(sorted, item) ==
    IF sorted = <<>> THEN <<item>>
    ELSE IF HotterThan(item, Head(sorted)) THEN <<item>> \o sorted
    ELSE <<Head(sorted)>> \o InsertByHeat(Tail(sorted), item)

RECURSIVE SortByHeat(_)
SortByHeat(items) ==
    IF items = <<>> THEN <<>>
    ELSE InsertByHeat(SortByHeat(SubSeq(items, 1, Len(items) - 1)), items[Len(items)])

TREEMAP_LIMIT == 24

\* items, lines 3198-3215
CatalogTreemapItems(snapshots) ==
    WithValue(ScoredItems(RawItems(snapshots)), LAMBDA scoredItems :
    WithValue(AsTuple([k \in 1..Len(scoredItems) |-> scoredItems[k].rawHeat]), LAMBDA heats :
    WithValue(IF heats = <<>> THEN 0 ELSE MinOf(Range(heats)), LAMBDA rawHeatMin :
    WithValue(MaxOf(Range(heats) \cup {0}), LAMBDA rawHeatMax :
    WithValue(SortByHeat(AsTuple([k \in 1..Len(scoredItems) |->
                  scoredItems[k] @@
                  [heatScore |->
                      HeatScoreOf(POW_CONTRAST[
                          (IF rawHeatMax - rawHeatMin <= 0 THEN 0
                           ELSE clamp(RoundDiv(HeatUnit * (scoredItems[k].rawHeat - rawHeatMin),
                                               rawHeatMax - rawHeatMin), 0, HeatUnit)) + 1])]])),
              LAMBDA sorted :
        SubSeq(sorted, 1, IF Len(sorted) < TREEMAP_LIMIT THEN Len(sorted) ELSE TREEMAP_LIMIT))))))

----------------------------------------------------------------------------
(* renderCatalogTreemap applied to the latest snapshots of the             *)
(* institutions.  The focus key is empty, so that lines 3219-3227 only     *)
(* store the items.                                                        *)

MaxCatalogRows == 2

\* two rows of ticker XOM under different codes, a row without ticker, a row of key
\* OTHER and a row of value 0
CatalogHoldingInputs ==
    { [code |-> <<"0","3","7","8">>, ticker |-> <<"x","o","m">>, issuer |-> <<"E","x","x","o","n">>, title_of_class |-> <<>>,
       value_usd |-> 3, shares |-> <<>>, weight |-> <<25>>],
      [code |-> <<"0","5","9","4">>, ticker |-> <<"x","o","m">>, issuer |-> <<"E","x","x","o","n">>, title_of_class |-> <<>>,
       value_usd |-> 1, shares |-> <<>>, weight |-> <<>>],
      [code |-> <<"0","5","9","4">>, ticker |-> <<>>, issuer |-> <<"Z","e","t","a">>, title_of_class |-> <<>>,
       value_usd |-> 1, shares |-> <<>>, weight |-> <<25>>],
      [code |-> <<"O","T","H","E","R">>, ticker |-> <<>>, issuer |-> <<"O","t","h","e","r"," ","H","o","l","d","i","n","g","s">>, title_of_class |-> <<>>,
       value_usd |-> 2, shares |-> <<>>, weight |-> <<50>>],
      [code |-> <<"0","3","7","8">>, ticker |-> <<"x","o","m">>, issuer |-> <<"E","x","x","o","n">>, title_of_class |-> <<>>,
       value_usd |-> 0, shares |-> <<>>, weight |-> <<25>>] }

\* getLatestSnapshotForInvestor: <<>> for an institution without filing
LatestSnapshotChoices ==
    { <<>> } \cup
    { <<snapshotFromSecFiling([quarter |-> LATEST_QUARTER, total_value_usd |-> 0, value_scale |-> 1,
                               holdings |-> hs], <<>>, <<>>)>> :
        hs \in SeqsUpTo(CatalogHoldingInputs, MaxCatalogRows) }

InitCatalog ==
    /\ catalogSnapshots \in [DOMAIN INVESTORS -> LatestSnapshotChoices]
    /\ catalogItems = <<>>
    /\ LabelsIdle
    /\ SnapshotIdle
    /\ ChangesIdle
    /\ ScaleIdle
    /\ AppIdle
    /\ IssuerIdle
    /\ StyleIdle
    /\ MoreIdle

RenderCatalogTreemap ==
    /\ catalogItems = <<>>
    /\ catalogItems' = <<CatalogTreemapItems(catalogSnapshots)>>
    /\ UNCHANGED <<catalogSnapshots, labelVars, snapshotVars, changeVars, scaleVars, appVars,
                   issuerVars, styleVars, moreVars>>

NextCatalog == RenderCatalogTreemap

SpecCatalog == InitCatalog /\ [][NextCatalog]_vars

\* the raw heats of the entries
RawHeats == { catalogItems[1][k].rawHeat : k \in DOMAIN catalogItems[1] }

\* C16, as amended: the heatScore of every entry lies in [0.045, 1]; when the highest and
\* the lowest raw heat differ (by 1e-9 or more; a thousandth is the least difference here)
\* the entries with the highest raw heat get 1 and those with the lowest get the floor
\* 0.045; when the raw heats are all equal every entry gets the floor
C16_HeatScoreRescaled ==
    (catalogItems # <<>> /\ catalogItems[1] # <<>>) =>
        \A k \in DOMAIN catalogItems[1] :
            LET entry == catalogItems[1][k]
            IN  /\ 4500 <= entry.heatScore
                /\ entry.heatScore <= 100000
                /\ MaxOf(RawHeats) > MinOf(RawHeats) =>
                       /\ entry.rawHeat = MaxOf(RawHeats) => entry.heatScore = 100000
                       /\ entry.rawHeat = MinOf(RawHeats) => entry.heatScore = 4500
                /\ MaxOf(RawHeats) = MinOf(RawHeats) => entry.heatScore = 4500

\* C16, as stated: the entry with the highest raw heat gets 1 and the entry with the
\* lowest gets the floor, for every non-empty set of entries
C16_HighestGetsOne ==
    (catalogItems # <<>> /\ catalogItems[1] # <<>>) =>
        \A k \in DOMAIN catalogItems[1] :
            LET entry == catalogItems[1][k]
            IN  /\ 4500 <= entry.heatScore
                /\ entry.heatScore <= 100000
                /\ entry.rawHeat = MaxOf(RawHeats) => entry.heatScore = 100000
                /\ entry.rawHeat = MinOf(RawHeats) => entry.heatScore = 4500

\* two entries of different raw heat, the first rescaled to 1 and the last to the floor
C16_Witness ==
    /\ catalogItems # <<>>
    /\ Len(catalogItems[1]) = 2
    /\ catalogItems[1][1].rawHeat > catalogItems[1][2].rawHeat
    /\ catalogItems[1][1].heatScore = 100000
    /\ catalogItems[1][2].heatScore = 4500

\* the sum of f[x] over the elements x of a set
RECURSIVE SumOver(_, _)
SumOver(f, S) ==
    IF S = {} THEN 0 ELSE LET x == CHOOSE x \in S : TRUE IN f[x] + SumOver(f, S \ {x})

\* the positions of the rows of positive value of institution i that map to a key
RowsMappingTo(key, i) ==
    IF catalogSnapshots[i] = <<>> THEN {}
    ELSE { j \in DOMAIN catalogSnapshots[i][1].holdings :
             /\ catalogSnapshots[i][1].holdings[j].value > 0
             /\ TreemapKeyOf(catalogSnapshots[i][1].holdings[j]) = key }

ValueHeldBy(key, i) ==
    SumOver([j \in RowsMappingTo(key, i) |-> catalogSnapshots[i][1].holdings[j].value],
            RowsMappingTo(key, i))

WeightHeldBy(key, i) ==
    SumOver([j \in RowsMappingTo(key, i) |-> catalogSnapshots[i][1].holdings[j].weight],
            RowsMappingTo(key, i))

\* C17: for every entry, value is the sum of the values of the positive-value rows of all
\* latest snapshots that map to its key; institutions is the number of institutions with
\* such a row; holders has one element per such institution, by value descending; and
\* avgWeight is weightSum over the number of institutions that have a latest snapshot
C17_CrossInstitutionAggregate ==
    catalogItems # <<>> =>
        \A k \in DOMAIN catalogItems[1] :
            LET entry == catalogItems[1][k]
                holding == { i \in DOMAIN INVESTORS : RowsMappingTo(entry.key, i) # {} }
            IN  /\ entry.value = SumOver([i \in holding |-> ValueHeldBy(entry.key, i)], holding)
                /\ entry.weightSum = SumOver([i \in holding |-> WeightHeldBy(entry.key, i)], holding)
                /\ entry.institutions = Cardinality(holding)
                /\ Len(entry.holders) = Cardinality(holding)
                /\ \A i \in holding :
                       \E h \in DOMAIN entry.holders :
                           entry.holders[h] = [id |-> INVESTORS[i], value |-> ValueHeldBy(entry.key, i)]
                /\ \A a, b \in DOMAIN entry.holders :
                       a < b => entry.holders[a].value >= entry.holders[b].value
                /\ entry.avgWeight = Frac(entry.weightSum, CoveredInstitutions(catalogSnapshots))

\* both institutions have a snapshot; the first holds XOM in two rows, the second holds
\* only the row without ticker: XOM has one holder and its weight is divided by two
C17_Witness ==
    /\ catalogItems # <<>>
    /\ \E k \in DOMAIN catalogItems[1] :
           /\ catalogItems[1][k].key = <<"X","O","M">>
           /\ catalogItems[1][k].institutions = 1
           /\ catalogItems[1][k].value = 4
           /\ catalogItems[1][k].avgWeight = Frac(25, 2)
    /\ \E k \in DOMAIN catalogItems[1] :
           /\ catalogItems[1][k].key = <<"0","5","9","4">>
           /\ catalogItems[1][k].institutions = 1
           /\ catalogItems[1][k].holders = << [id |-> INVESTORS[2], value |-> 1] >>

----------------------------------------------------------------------------
(* The quarter selector of the detail view, on the state of the page.      *)

\* options of renderQuarterSelector, lines 3566-3569: latest quarter first
QuarterOptions(history, activeId) ==
    WithValue(getAvailableQuartersForInvestor(history, activeInvestor(activeId)), LAMBDA available :
        IF available # <<>>
        THEN AsTuple([i \in 1..Len(available) |-> available[Len(available) + 1 - i]])
        ELSE <<LATEST_QUARTER>>)

\* elements.quarterSelect.disabled, line 3577
QuarterSelectDisabled(history, activeId) ==
    \/ activeInvestor(activeId) = <<>>
    \/ getAvailableQuartersForInvestor(history, activeInvestor(activeId)) = <<>>

\* the quarters the institution has a filing for in the loaded data
FiledQuarters(history, id) ==
    IF id \in DOMAIN history THEN DOMAIN history[id] ELSE {}

\* C18: in the detail view the quarter selector offers exactly the quarters the
\* active institution has a filing for in the loaded data and state.quarter is one
\* of them; an institution with none gets the disabled selector showing the latest
\* quarter of the range only
C18_SelectorOffersFilingQuarters ==
    view = "detail" =>
        LET filed   == FiledQuarters(secHistoryById, activeInvestorId)
            offered == Range(QuarterOptions(secHistoryById, activeInvestorId))
        IN  /\ offered = (IF filed # {} THEN filed ELSE {LATEST_QUARTER})
            /\ stateQuarter \in offered
            /\ QuarterSelectDisabled(secHistoryById, activeInvestorId) <=> filed = {}

----------------------------------------------------------------------------
(* getDisplaySnapshot and getQuarterChanges on the state of the page:      *)
(* src/app.js, lines 1586-1592 and 1640-1753.  null is <<>>, a snapshot s   *)
(* is <<s>>, and the list of changes is the sequence of its rows.          *)

getDisplaySnapshot(loaded, history, managers, byCode, byIssuer, investor, quarter) ==
    WithValue(getSecQuarterFiling(loaded, history, managers, investor, quarter), LAMBDA filing :
        IF filing # <<>> THEN <<snapshotFromSecFiling(filing[1], byCode, byIssuer)>>
        ELSE <<>>)

\* getQuarterChanges taking QUARTERS[idx] for the previous quarter: the quarter itself
getQuarterChangesSameQuarter(loaded, history, managers, byCode, byIssuer, investor, quarter) ==
    WithValue(quarterIndex(quarter), LAMBDA idx :
        IF idx <= 0 THEN <<>>
        ELSE
    WithValue(getDisplaySnapshot(loaded, history, managers, byCode, byIssuer,
                                 investor, quarter), LAMBDA current :
    WithValue(getDisplaySnapshot(loaded, history, managers, byCode, byIssuer,
                                 investor, QUARTERS[idx + 1]), LAMBDA previous :
        IF current = <<>> \/ previous = <<>> THEN <<>>
        ELSE QuarterChangeRows(current[1].holdings, previous[1].holdings))))

\* idx is the 0-based position of the quarter, so QUARTERS[idx - 1] of line 1647 is
\* the element idx of the 1-based sequence
getQuarterChanges(loaded, history, managers, byCode, byIssuer, investor, quarter) ==
    WithValue(quarterIndex(quarter), LAMBDA idx :
        IF idx <= 0 THEN <<>>
        ELSE
    WithValue(getDisplaySnapshot(loaded, history, managers, byCode, byIssuer,
                                 investor, quarter), LAMBDA current :
    WithValue(getDisplaySnapshot(loaded, history, managers, byCode, byIssuer,
                                 investor, QUARTERS[idx]), LAMBDA previous :
        IF current = <<>> \/ previous = <<>> THEN <<>>
        ELSE QuarterChangeRows(current[1].holdings, previous[1].holdings))))

\* the quarters the queries are asked about: those of the file, one more quarter of
\* the range and the last quarter of the range
QueriedQuarters == Range(PayloadQuarters) \cup {Quarter(START_YEAR, 3), LATEST_QUARTER}

\* the snapshot of an institution's quarter on the page as it is
DisplaySnapshotNow(investor, quarter) ==
    getDisplaySnapshot(secHistoryLoaded, secHistoryById, payload,
                       derivedSecTickerByCode, derivedSecTickerByIssuer, investor, quarter)

\* the changes of an institution's quarter on the page as it is
QuarterChangesNow(investor, quarter) ==
    getQuarterChanges(secHistoryLoaded, secHistoryById, payload,
                      derivedSecTickerByCode, derivedSecTickerByIssuer, investor, quarter)

\* the file holds a filing of the institution for the quarter
HasFilingInFile(investor, quarter) ==
    \E m \in 1..Len(payload) :
        /\ payload[m].id = investor
        /\ \E f \in 1..Len(payload[m].filings) : payload[m].filings[f].quarter = quarter

\* C19: while the history is not loaded (the load still runs, or has failed) every
\* institution and quarter has the snapshot null, no changes and no available
\* quarter; after the load a quarter the institution has no filing for has the
\* snapshot null
C19_NoDataSentinels ==
    \A investor \in Range(INVESTORS) :
        /\ loadStage # "loaded" =>
               /\ ~secHistoryLoaded
               /\ getAvailableQuartersForInvestor(secHistoryById, <<investor>>) = <<>>
               /\ \A quarter \in QueriedQuarters :
                      /\ DisplaySnapshotNow(investor, quarter) = <<>>
                      /\ QuarterChangesNow(investor, quarter) = <<>>
        /\ loadStage = "loaded" =>
               \A quarter \in QueriedQuarters :
                   ~HasFilingInFile(investor, quarter)
                       => DisplaySnapshotNow(investor, quarter) = <<>>

\* C19 witness: the load has failed on a file that holds filings of two quarters in a
\* row for the institution the user has opened, and no snapshot was ever built
C19_Witness ==
    /\ loadStage = "failed"
    /\ view = "detail"
    /\ HasFilingInFile(activeInvestorId, QUARTERS[1])
    /\ HasFilingInFile(activeInvestorId, QUARTERS[2])
    /\ snapshotLog = {}

\* the calendar quarter before a quarter
PrecedingCalendarQuarter(quarter) ==
    IF quarter.q > 1 THEN Quarter(quarter.year, quarter.q - 1)
    ELSE Quarter(quarter.year - 1, 4)

\* C20: getQuarterChanges gives no rows when the quarter is the first of the range
\* or outside it, or when the institution has no snapshot for the quarter or for
\* the calendar quarter before it; otherwise it gives the rows of the comparison of
\* the quarter's snapshot with that of the calendar quarter before it
C20_ChangesAgainstPrecedingQuarter ==
    \A investor \in Range(INVESTORS), quarter \in QueriedQuarters :
        LET current  == DisplaySnapshotNow(investor, quarter)
            previous == DisplaySnapshotNow(investor, PrecedingCalendarQuarter(quarter))
        IN  IF \/ quarter = QUARTERS[1]
               \/ quarter \notin Range(QUARTERS)
               \/ current = <<>>
               \/ previous = <<>>
            THEN QuarterChangesNow(investor, quarter) = <<>>
            ELSE QuarterChangesNow(investor, quarter)
                     = QuarterChangeRows(current[1].holdings, previous[1].holdings)

\* C20 witness: the loaded history has the first two quarters of the range and the
\* quarter before the range for the active institution; the second quarter has a
\* row of changes against the first, and the first has none
C20_Witness ==
    /\ loadStage = "loaded"
    /\ view = "detail"
    /\ stateQuarter = QUARTERS[2]
    /\ DisplaySnapshotNow(activeInvestorId, EARLIER_QUARTER) # <<>>
    /\ QuarterChangesNow(activeInvestorId, QUARTERS[1]) = <<>>
    /\ QuarterChangesNow(activeInvestorId, QUARTERS[2]) # <<>>

----------------------------------------------------------------------------
(* Style radar scale: src/app.js, lines 1395-1406 and 2245-2292.           *)
(*                                                                         *)
(* Numbers are exact: a weight is a fraction [num, den], and Math.pow of a *)
(* base strictly between 0 and 1 to an exponent other than 1 is held as    *)
(* the power [base, exp], whose exponents multiply when it is raised        *)
(* again.  Infinity is the fraction with den 0; null is <<>>.              *)

RECURSIVE Gcd(_, _)
Gcd(a, b) == IF b = 0 THEN a ELSE Gcd(b, a % b)

\* a fraction in lowest terms
Lowest(x) ==
    LET g == Gcd(Abs(x.num), x.den)
    IN  IF g = 0 THEN Frac(0, 1) ELSE Frac(x.num \div g, x.den \div g)

FracMul(a, b) == Lowest(Frac(a.num * b.num, a.den * b.den))
FracDiv(a, b) == Lowest(Frac(a.num * b.den, a.den * b.num))
FracMax(a, b) == IF FracLess(a, b) THEN b ELSE a
FracClamp(value, min, max) ==
    IF FracLess(value, min) THEN min ELSE IF FracLess(max, value) THEN max ELSE value

IsPower(x) == "exp" \in DOMAIN x

\* Math.pow(x, y) for x in [0, 1] and y > 0
MathPow(x, y) ==
    LET base == IF IsPower(x) THEN x.base ELSE x
        exp  == IF IsPower(x) THEN FracMul(x.exp, y) ELSE Lowest(y)
    IN  IF base.num = 0 THEN Frac(0, 1)
        ELSE IF base.num = base.den THEN Frac(1, 1)
        ELSE IF exp.num = exp.den THEN Lowest(base)
        ELSE [base |-> Lowest(base), exp |-> exp]

\* safeCap * x
TimesCap(safeCap, x) ==
    IF IsPower(x) THEN [coefficient |-> safeCap, base |-> x.base, exp |-> x.exp]
    ELSE FracMul(safeCap, x)

\* clamp(x, 0, 1): a power of a base in (0, 1) lies in (0, 1)
ClampUnit(x) == IF IsPower(x) THEN x ELSE FracClamp(x, Frac(0, 1), Frac(1, 1))

STYLE_RADAR_GLOBAL_GAMMA == Frac(31, 50)
STYLE_RADAR_FALLBACK_CAP == Frac(9, 25)

SP500_STYLE_PROFILE ==
    [axis \in Range(STYLE_RADAR_AXES) |->
        IF axis = "technology" THEN Frac(31, 100)
        ELSE IF axis = "financials" THEN Frac(14, 100)
        ELSE IF axis = "consumer" THEN Frac(16, 100)
        ELSE IF axis = "healthcare" THEN Frac(11, 100)
        ELSE IF axis = "industrials" THEN Frac(9, 100)
        ELSE IF axis = "energy" THEN Frac(7, 100)
        ELSE Frac(12, 100)]

\* Math.max over the positive values of the profiles that are not null, lines 2246-2258
RECURSIVE MaxFrac(_)
MaxFrac(values) ==
    LET one == CHOOSE value \in values : TRUE
    IN  IF values = {one} THEN one ELSE FracMax(one, MaxFrac(values \ {one}))

PositiveValues(profiles) ==
    UNION { IF profiles[p] = <<>> THEN {}
            ELSE { profiles[p][1][axis] : axis \in {a \in Range(STYLE_RADAR_AXES) :
                                                       profiles[p][1][a].num > 0} } :
            p \in 1..Len(profiles) }

\* toRaw raising to safeGamma instead of 1 / safeGamma
toRawSameExponent(scale, scaledValue) ==
    TimesCap(scale.cap, MathPow(ClampUnit(scaledValue), scale.gamma))

\* the scale is the record of safeCap and safeGamma its two closures read
createStyleRadarScale(primaryProfile, benchmarkProfile, gamma, fixedCap) ==
    LET values     == PositiveValues(<<primaryProfile, benchmarkProfile>>)
        dynamicCap == IF values # {} THEN MaxFrac(values) ELSE STYLE_RADAR_FALLBACK_CAP
        cap        == IF fixedCap # <<>> /\ fixedCap[1].num # 0 /\ fixedCap[1].den # 0
                      THEN fixedCap[1] ELSE dynamicCap
        safeCap    == IF cap.num > 0 THEN cap ELSE STYLE_RADAR_FALLBACK_CAP
    IN  [cap |-> Lowest(safeCap), gamma |-> Lowest(FracClamp(gamma, Frac(45, 100), Frac(1, 1)))]

toScaled(scale, value) ==
    MathPow(ClampUnit(FracDiv(value, scale.cap)), scale.gamma)

toRaw(scale, scaledValue) ==
    TimesCap(scale.cap, MathPow(ClampUnit(scaledValue), FracDiv(Frac(1, 1), scale.gamma)))

\* round(clamp(maxWeight, 0.2, 0.8), 4) over the benchmark and the profiles of the
\* snapshots of every institution's quarters, lines 2270-2292
computeGlobalStyleRadarScaleCap(profiles) ==
    LET maxWeight == MaxFrac({STYLE_RADAR_FALLBACK_CAP}
                                 \cup { SP500_STYLE_PROFILE[axis] : axis \in Range(STYLE_RADAR_AXES) }
                                 \cup UNION { { profile[axis] : axis \in Range(STYLE_RADAR_AXES) } :
                                              profile \in profiles })
        clamped   == FracClamp(maxWeight, Frac(2, 10), Frac(8, 10))
    IN  Lowest(Frac(RoundDiv(clamped.num * 10000, clamped.den), 10000))

----------------------------------------------------------------------------
(* A scale is built from two profiles and a value makes the trip through   *)
(* toScaled and toRaw.                                                     *)

\* the value given to toScaled is step / RadarSteps of the scale's cap; one step
\* more lies above the cap
RadarSteps == 4

ProfileOf(technology, energy) ==
    [axis \in Range(STYLE_RADAR_AXES) |->
        IF axis = "technology" THEN technology
        ELSE IF axis = "energy" THEN energy ELSE Frac(0, 1)]

RadarProfileInputs ==
    { <<>>, <<createStyleBucketTotals>>, <<ProfileOf(Frac(1, 2), Frac(1, 4))>>,
      <<ProfileOf(Frac(1, 1), Frac(0, 1))>>, <<SP500_STYLE_PROFILE>> }

RadarGammaInputs == { Frac(3, 10), STYLE_RADAR_GLOBAL_GAMMA, Frac(1, 1), Frac(3, 2) }

\* no cap, 0, a negative cap, a cap that is not finite, the fallback of line 2355 and
\* the cap computed over the profiles
RadarCapInputs(profiles) ==
    { <<>>, <<Frac(0, 1)>>, <<Frac(-1, 2)>>, <<Frac(1, 0)>>, <<STYLE_RADAR_FALLBACK_CAP>>,
      <<computeGlobalStyleRadarScaleCap({ profiles[p][1] : p \in {q \in 1..2 : profiles[q] # <<>>} })>> }

InitRadar ==
    /\ radarProfiles \in RadarProfileInputs \X {<<>>, <<SP500_STYLE_PROFILE>>}
    /\ \E gamma \in RadarGammaInputs, fixedCap \in RadarCapInputs(radarProfiles) :
           radarCall = <<[gamma |-> gamma, fixedCap |-> fixedCap]>>
    /\ radarScale = <<>>
    /\ radarTrip = <<>>
    /\ LabelsIdle
    /\ SnapshotIdle
    /\ ChangesIdle
    /\ ScaleIdle
    /\ AppIdle
    /\ IssuerIdle
    /\ StyleIdle
    /\ CatalogIdle
    /\ VoteIdle
    /\ TradeIdle

radarIdleVars == <<labelVars, snapshotVars, changeVars, scaleVars, appVars,
                   issuerVars, styleVars, catalogVars, voteVars, tradeVars>>

CreateStyleRadarScale ==
    /\ radarScale = <<>>
    /\ radarScale' = <<createStyleRadarScale(radarProfiles[1], radarProfiles[2],
                                             radarCall[1].gamma, radarCall[1].fixedCap)>>
    /\ UNCHANGED <<radarProfiles, radarCall, radarTrip, radarIdleVars>>

\* radarScale.toScaled(value)
ApplyToScaled ==
    /\ radarScale # <<>>
    /\ radarTrip = <<>>
    /\ \E step \in 0..(RadarSteps + 1) :
       \E value \in { FracMul(radarScale[1].cap, Frac(step, RadarSteps)) } :
           radarTrip' = <<[value |-> value, scaled |-> <<toScaled(radarScale[1], value)>>,
                           raw |-> <<>>]>>
    /\ UNCHANGED <<radarProfiles, radarCall, radarScale, radarIdleVars>>

\* radarScale.toRaw(scaledValue) of the result of toScaled
ApplyToRaw ==
    /\ radarTrip # <<>>
    /\ radarTrip[1].raw = <<>>
    /\ radarTrip' = <<[radarTrip[1] EXCEPT !.raw = <<toRaw(radarScale[1], radarTrip[1].scaled[1])>>]>>
    /\ UNCHANGED <<radarProfiles, radarCall, radarScale, radarIdleVars>>

NextRadar ==
    \/ CreateStyleRadarScale
    \/ ApplyToScaled
    \/ ApplyToRaw

SpecRadar == InitRadar /\ [][NextRadar]_vars

\* C21: toRaw of toScaled of a value between 0 and the scale's cap is the value, and
\* no step of building or applying the scale changes the profiles it was given
C21_ScaleRoundTrip ==
    [][ /\ radarProfiles' = radarProfiles
        /\ \A trip \in Range(radarTrip') :
               (/\ trip.raw # <<>>
                /\ ~FracLess(trip.value, Frac(0, 1))
                /\ ~FracLess(radarScale'[1].cap, trip.value))
                   => /\ ~IsPower(trip.raw[1])
                      /\ FracEq(trip.raw[1], trip.value) ]_vars

\* C21 witness: a scale built with both profiles, a gamma below the range (clamped to
\* 0.45) and the computed cap has taken a value strictly inside (0, cap) through a
\* power and back
C21_Witness ==
    /\ radarProfiles[1] # <<>>
    /\ radarProfiles[2] # <<>>
    /\ radarCall[1].gamma = Frac(3, 10)
    /\ radarScale # <<>>
    /\ radarScale[1].gamma = Frac(9, 20)
    /\ radarTrip # <<>>
    /\ radarTrip[1].raw # <<>>
    /\ IsPower(radarTrip[1].scaled[1])
    /\ radarTrip[1].raw[1] = radarTrip[1].value
    /\ FracLess(Frac(0, 1), radarTrip[1].value)
    /\ FracLess(radarTrip[1].value, radarScale[1].cap)

----------------------------------------------------------------------------
(* buildDerivedSecTickerMaps as the loops run: src/app.js, lines 543-619.  *)
(*                                                                         *)
(* A Map is the sequence of its entries in insertion order: votesByCode    *)
(* and votesByIssuer are sequences of [key, votes], and the votes of a key *)
(* a sequence of [ticker, count].                                          *)

\* codeVotes.set(ticker, (codeVotes.get(ticker) || 0) + 1)
AddVote(votes, ticker) ==
    IF \E c \in 1..Len(votes) : votes[c].ticker = ticker
    THEN AsTuple([c \in 1..Len(votes) |->
                     IF votes[c].ticker = ticker
                     THEN [ticker |-> ticker, count |-> votes[c].count + 1] ELSE votes[c]])
    ELSE Append(votes, [ticker |-> ticker, count |-> 1])

\* lines 579-585 and 588-594: the vote goes to the entry of the key, made if missing
AddVoteAt(tally, key, ticker) ==
    IF key = <<>> THEN tally
    ELSE IF \E e \in 1..Len(tally) : tally[e].key = key
    THEN AsTuple([e \in 1..Len(tally) |->
                     IF tally[e].key = key
                     THEN [key |-> key, votes |-> AddVote(tally[e].votes, ticker)] ELSE tally[e]])
    ELSE Append(tally, [key |-> key, votes |-> AddVote(<<>>, ticker)])

\* the two Maps after the holdings up to the n-th have been visited, lines 562-596
RECURSIVE TallyVotes(_, _)
TallyVotes(items, n) ==
    IF n = 0 THEN [byCode |-> <<>>, byIssuer |-> <<>>]
    ELSE WithValue(TallyVotes(items, n - 1), LAMBDA before :
         WithValue(VotedTicker(items[n]), LAMBDA ticker :
             IF ticker = <<>> THEN before
             ELSE [byCode   |-> AddVoteAt(before.byCode, ToUpperCase(Trim(items[n].code)), ticker),
                   byIssuer |-> AddVoteAt(before.byIssuer,
                                          normalizeIssuerForTicker(items[n].issuer), ticker)]))

\* candidates.sort(...) of lines 548-557: a stable sort
RECURSIVE InsertCandidate(_, _)
InsertCandidate(sorted, candidate) ==
    IF sorted = <<>> THEN <<candidate>>
    ELSE IF VoteBefore(candidate.ticker, candidate.count, Head(sorted).ticker, Head(sorted).count)
         THEN <<candidate>> \o sorted
         ELSE <<Head(sorted)>> \o InsertCandidate(Tail(sorted), candidate)

RECURSIVE SortCandidates(_)
SortCandidates(candidates) ==
    IF candidates = <<>> THEN <<>>
    ELSE InsertCandidate(SortCandidates(SubSeq(candidates, 1, Len(candidates) - 1)),
                         candidates[Len(candidates)])

\* bestTickerFromVotes on the entries of a Map of votes
BestCandidate(candidates) ==
    IF candidates = <<>> THEN <<>> ELSE SortCandidates(candidates)[1].ticker

\* lines 602-616: the Map from each key to its best ticker
WinnersOf(tally) ==
    [key \in {tally[e].key : e \in 1..Len(tally)} |->
        BestCandidate(tally[CHOOSE e \in 1..Len(tally) : tally[e].key = key].votes)]

----------------------------------------------------------------------------
(* buildDerivedSecTickerMaps on the holdings of two managers.              *)

MaxVoters == 3

\* holdings whose code has an override, reads as a ticker or neither; whose raw
\* ticker looks like a ticker or not; whose issuer has an override or not
VoterInputs ==
    { [code |-> c.code, ticker |-> c.ticker, issuer |-> c.issuer, title_of_class |-> <<>>,
       value_usd |-> 1, shares |-> <<>>, weight |-> <<>>] :
      c \in { [code |-> <<"8","8","1","6","0","R","1","0","1">>, ticker |-> <<>>,       issuer |-> <<"T","e","s","l","a"," ","I","n","c">>],
              [code |-> <<"0","3","7","8","3","3","1","0","0">>, ticker |-> <<"a","a","p",".","l">>,  issuer |-> <<"A","p","p","l","e"," ","I","n","c",".">>],
              [code |-> <<"0","3","7","8","3","3","1","0","0">>, ticker |-> <<"A","A","P","-","K">>,  issuer |-> <<"T","w","i","t","t","e","r",","," ","I","n","c",".">>],
              [code |-> <<"0","3","7","8","3","3","1","0","0">>, ticker |-> <<"1","X">>,     issuer |-> <<"A","P","P","L","E"," ","I","N","C">>],
              [code |-> <<"a","a","p","l">>,      ticker |-> <<>>,       issuer |-> <<"T","w","i","t","t","e","r"," ","I","n","c">>],
              [code |-> <<>>,          ticker |-> <<"A","P">>,     issuer |-> <<"A","P","P","L","E">>] } }

\* the holdings are those of a filing of the first manager up to the split and those
\* of a filing of the second after it
CorpusOf(holdings, split) ==
    << [id |-> INVESTORS[1],
        filings |-> << [quarter |-> LATEST_QUARTER, total_value_usd |-> 0, value_scale |-> 1,
                        holdings |-> SubSeq(holdings, 1, split)] >>],
       [id |-> INVESTORS[2],
        filings |-> << [quarter |-> LATEST_QUARTER, total_value_usd |-> 0, value_scale |-> 1,
                        holdings |-> SubSeq(holdings, split + 1, Len(holdings))] >>] >>

InitVotes ==
    /\ \E holdings \in SeqsUpTo(VoterInputs, MaxVoters) :
       \E split \in {0, Len(holdings)} :
           voteCorpus = CorpusOf(holdings, split)
    /\ voteTally = <<>>
    /\ voteWinners = <<>>
    /\ LabelsIdle
    /\ SnapshotIdle
    /\ ChangesIdle
    /\ ScaleIdle
    /\ AppIdle
    /\ IssuerIdle
    /\ StyleIdle
    /\ CatalogIdle
    /\ RadarIdle
    /\ TradeIdle

\* the forEach of lines 562-596
TallyTheVotes ==
    /\ voteCorpus # <<>>
    /\ voteTally = <<>>
    /\ \E items \in {AllHoldingsOf(voteCorpus)} :
           voteTally' = <<TallyVotes(items, Len(items))>>
    /\ UNCHANGED <<voteCorpus, voteWinners, labelVars, snapshotVars, changeVars, scaleVars,
                   appVars, issuerVars, styleVars, catalogVars, radarVars, tradeVars>>

\* lines 598-618
PickTheWinners ==
    /\ voteTally # <<>>
    /\ voteWinners = <<>>
    /\ voteWinners' = <<[byCode   |-> WinnersOf(voteTally[1].byCode),
                         byIssuer |-> WinnersOf(voteTally[1].byIssuer)]>>
    /\ UNCHANGED <<voteCorpus, voteTally, labelVars, snapshotVars, changeVars, scaleVars,
                   appVars, issuerVars, styleVars, catalogVars, radarVars, tradeVars>>

NextVotes == TallyTheVotes \/ PickTheWinners

SpecVotes == InitVotes /\ [][NextVotes]_vars

\* the holdings in the order they are visited
VoterItems == AllHoldingsOf(voteCorpus)

\* a Map of votes as the set of its <<key, ticker, count>>
CountsOf(tally) ==
    UNION { { <<tally[e].key, tally[e].votes[c].ticker, tally[e].votes[c].count>> :
                c \in 1..Len(tally[e].votes) } : e \in 1..Len(tally) }

\* the counts when holding i votes ticker[i] under key[i], and not at all when
\* either is empty
CountsFrom(key, ticker) ==
    LET voters == {i \in DOMAIN key : key[i] # <<>> /\ ticker[i] # <<>>}
    IN  { <<key[i], ticker[i],
            Cardinality({j \in voters : key[j] = key[i] /\ ticker[j] = ticker[i]})>> :
          i \in voters }

\* rules 2 and 3 of the resolver: the raw ticker, else the code read as a ticker
TickerByRulesTwoAndThree(item) ==
    LET rawTicker    == DotsToDashes(ToUpperCase(Trim(item.ticker)))
        codeAsTicker == DotsToDashes(ToUpperCase(Trim(item.code)))
    IN  IF looksLikeUsTicker(rawTicker) THEN rawTicker
        ELSE IF looksLikeUsTicker(codeAsTicker) THEN codeAsTicker
        ELSE <<>>

\* rule 1 before them: the override of the code
TickerByRulesOneToThree(item) ==
    LET seeded == Lookup(CUSIP_TICKER_OVERRIDES, ToUpperCase(Trim(item.code)))
    IN  IF seeded # <<>> THEN seeded ELSE TickerByRulesTwoAndThree(item)

CodeKeys == [i \in 1..Len(VoterItems) |-> ToUpperCase(Trim(VoterItems[i].code))]
IssuerKeys == [i \in 1..Len(VoterItems) |-> normalizeIssuerForTicker(VoterItems[i].issuer)]

\* C22 as claimed: the votes tallied under every code and every issuer key are those
\* of the holdings' raw tickers and of their codes read as tickers, and no other
C22_VotesByRulesTwoAndThree ==
    voteTally # <<>> =>
        LET ticker == [i \in 1..Len(VoterItems) |-> TickerByRulesTwoAndThree(VoterItems[i])]
        IN  /\ CountsOf(voteTally[1].byCode) = CountsFrom(CodeKeys, ticker)
            /\ CountsOf(voteTally[1].byIssuer) = CountsFrom(IssuerKeys, ticker)

\* C22 amended: the votes tallied under every code and every issuer key are those of
\* the override of a holding's code, else of its raw ticker, else of its code read
\* as a ticker, and no other; the override table of issuers casts no vote
C22_VotesByRulesOneToThree ==
    voteTally # <<>> =>
        LET ticker == [i \in 1..Len(VoterItems) |-> TickerByRulesOneToThree(VoterItems[i])]
        IN  /\ CountsOf(voteTally[1].byCode) = CountsFrom(CodeKeys, ticker)
            /\ CountsOf(voteTally[1].byIssuer) = CountsFrom(IssuerKeys, ticker)

\* C22 witness: the votes are tallied for three holdings: one whose code has an
\* override and no raw ticker, one whose raw ticker does not look like a ticker, and
\* one whose issuer has an override; the first has a vote under its code, the second
\* none, and the third's issuer key holds the raw ticker and not the override
C22_Witness ==
    /\ voteTally # <<>>
    /\ Len(VoterItems) = 3
    /\ VoterItems[1].ticker = <<>>
    /\ Lookup(CUSIP_TICKER_OVERRIDES, VoterItems[1].code) # <<>>
    /\ <<VoterItems[1].code, Lookup(CUSIP_TICKER_OVERRIDES, VoterItems[1].code), 1>>
           \in CountsOf(voteTally[1].byCode)
    /\ VoterItems[2].ticker = <<"1","X">>
    /\ Lookup(ISSUER_TICKER_OVERRIDES, IssuerKeys[3]) # <<>>
    /\ \A counted \in CountsOf(voteTally[1].byIssuer) :
           counted[1] = IssuerKeys[3] => counted[2] # Lookup(ISSUER_TICKER_OVERRIDES, IssuerKeys[3])
    /\ \E counted \in CountsOf(voteTally[1].byIssuer) : counted[1] = IssuerKeys[3]
    /\ \A counted \in CountsOf(voteTally[1].byCode) : counted[3] = 1

\* the maps buildDerivedSecTickerMaps returns when it visits the holdings in an order
WinnersInOrder(items) ==
    WithValue(TallyVotes(items, Len(items)), LAMBDA tally :
        [byCode |-> WinnersOf(tally.byCode), byIssuer |-> WinnersOf(tally.byIssuer)])

\* the orders the holdings can be visited in
VisitOrders == { order \in [1..Len(VoterItems) -> 1..Len(VoterItems)] :
                   Range(order) = 1..Len(VoterItems) }

\* the ticker is the winner of the counts held under the key: no other ticker has
\* more votes, or as many and a shorter text, or as many, as short a text and a
\* place before it in the order of texts
WinsUnder(counts, key, ticker) ==
    \E won \in counts :
        /\ won[1] = key
        /\ won[2] = ticker
        /\ \A other \in counts :
               (other[1] = key /\ other[2] # ticker) =>
                   \/ won[3] > other[3]
                   \/ won[3] = other[3] /\ Len(ticker) < Len(other[2])
                   \/ won[3] = other[3] /\ Len(ticker) = Len(other[2]) /\ LocaleBefore(ticker, other[2])

\* C23: the derived maps hold, for exactly the codes and the issuer keys that got a
\* vote, the ticker with the most votes, the shortest among those, the first in the
\* order of texts among those; visiting the holdings in any other order gives the
\* same maps
C23_PluralityWithTieBreak ==
    voteWinners # <<>> =>
        /\ DOMAIN voteWinners[1].byCode = { counted[1] : counted \in CountsOf(voteTally[1].byCode) }
        /\ DOMAIN voteWinners[1].byIssuer = { counted[1] : counted \in CountsOf(voteTally[1].byIssuer) }
        /\ \A key \in DOMAIN voteWinners[1].byCode :
               WinsUnder(CountsOf(voteTally[1].byCode), key, voteWinners[1].byCode[key])
        /\ \A key \in DOMAIN voteWinners[1].byIssuer :
               WinsUnder(CountsOf(voteTally[1].byIssuer), key, voteWinners[1].byIssuer[key])
        /\ \A order \in VisitOrders :
               WinnersInOrder(AsTuple([i \in 1..Len(VoterItems) |-> VoterItems[order[i]]]))
                   = voteWinners[1]

\* C23 witness: two holdings of one code vote once each for two tickers as long as
\* each other, and the one visited second wins; a third holding shares the issuer
\* key of the first and its shorter ticker wins there with as many votes
C23_Witness ==
    /\ voteWinners # <<>>
    /\ Len(VoterItems) = 3
    /\ CodeKeys[1] = CodeKeys[2]
    /\ VotedTicker(VoterItems[1]) # VotedTicker(VoterItems[2])
    /\ Len(VotedTicker(VoterItems[1])) = Len(VotedTicker(VoterItems[2]))
    /\ voteWinners[1].byCode[CodeKeys[1]] = VotedTicker(VoterItems[2])
    /\ IssuerKeys[1] = IssuerKeys[3]
    /\ IssuerKeys[1] # IssuerKeys[2]
    /\ Len(VotedTicker(VoterItems[3])) < Len(VotedTicker(VoterItems[1]))
    /\ voteWinners[1].byIssuer[IssuerKeys[1]] = VotedTicker(VoterItems[3])
    /\ \A counted \in CountsOf(voteTally[1].byCode) \cup CountsOf(voteTally[1].byIssuer) :
           counted[3] = 1

----------------------------------------------------------------------------
(* inferTradeAmount on the values and share counts of one holding in two   *)
(* quarters.                                                               *)

TradeValues == {0, 20, 50}

\* no share count, none held, and three counts
TradeShares == {<<>>, <<0>>, <<500>>, <<1000>>, <<1500>>}

InitTrade ==
    /\ \E currValue \in TradeValues, prevValue \in TradeValues,
          currShares \in TradeShares, prevShares \in TradeShares :
           tradeCall = <<[currValue |-> currValue, prevValue |-> prevValue,
                          currShares |-> currShares, prevShares |-> prevShares]>>
    /\ tradeAmount = <<>>
    /\ LabelsIdle
    /\ SnapshotIdle
    /\ ChangesIdle
    /\ ScaleIdle
    /\ AppIdle
    /\ IssuerIdle
    /\ StyleIdle
    /\ CatalogIdle
    /\ RadarIdle
    /\ VoteIdle

\* shareDelta of line 1676; the caller passes numbers only, a call without them
\* stops at the first test
ShareDeltaOf(call) ==
    IF call.currShares # <<>> /\ call.prevShares # <<>>
    THEN call.currShares[1] - call.prevShares[1] ELSE 0

InferTradeAmount ==
    /\ tradeCall # <<>>
    /\ tradeAmount = <<>>
    /\ tradeAmount' = <<inferTradeAmount(tradeCall[1].currValue, tradeCall[1].prevValue,
                                         tradeCall[1].currShares, tradeCall[1].prevShares,
                                         ShareDeltaOf(tradeCall[1]))>>
    /\ UNCHANGED <<tradeCall, labelVars, snapshotVars, changeVars, scaleVars, appVars,
                   issuerVars, styleVars, catalogVars, radarVars, voteVars>>

NextTrade == InferTradeAmount

SpecTrade == InitTrade /\ [][NextTrade]_vars

\* the price a quarter implies is usable: value / shares is finite and positive
UsablePrice(value, shares) == shares > 0 /\ value > 0

\* C24: with both share counts and a share change, changeAmount is |shareDelta|
\* times the reference price: for an increase the price of the current quarter,
\* else that of the previous quarter when the current one is not usable; for a
\* decrease the price of the previous quarter, else that of the current quarter;
\* with no usable price it is |currentValue - previousValue|
C24_TradeAmountByReferencePrice ==
    \A call \in Range(tradeCall) :
        (tradeAmount # <<>> /\ call.currShares # <<>> /\ call.prevShares # <<>>
            /\ call.currShares # call.prevShares) =>
            LET cv == call.currValue
                pv == call.prevValue
                cs == call.currShares[1]
                ps == call.prevShares[1]
                byCurrent  == Frac(Abs(cs - ps) * cv, cs)
                byPrevious == Frac(Abs(cs - ps) * pv, ps)
            IN  IF cs > ps
                THEN IF UsablePrice(cv, cs) THEN FracEq(tradeAmount[1], byCurrent)
                     ELSE IF UsablePrice(pv, ps) THEN FracEq(tradeAmount[1], byPrevious)
                     ELSE FracEq(tradeAmount[1], Frac(Abs(cv - pv), 1))
                ELSE IF UsablePrice(pv, ps) THEN FracEq(tradeAmount[1], byPrevious)
                     ELSE IF UsablePrice(cv, cs) THEN FracEq(tradeAmount[1], byCurrent)
                     ELSE FracEq(tradeAmount[1], Frac(Abs(cv - pv), 1))

\* C24 witness: previous {shares 1000, value 50}, current {shares 0, value 0} gave
\* the amount 50
C24_Witness ==
    /\ tradeCall = <<[currValue |-> 0, prevValue |-> 50, currShares |-> <<0>>, prevShares |-> <<1000>>]>>
    /\ tradeAmount # <<>>
    /\ FracEq(tradeAmount[1], Frac(50, 1))

----------------------------------------------------------------------------
(* The rankings renderChangesCards derives from the rows of                *)
(* getQuarterChanges: src/app.js, lines 3861-3862.                         *)

\* allChanges.filter((item) => item.direction > 0).sort(...)
AddRowsOf(allChanges) ==
    SortByAmountDesc(SelectSeq(allChanges, LAMBDA item : item.direction > 0))

\* allChanges.filter((item) => item.direction < 0).sort(...)
CutRowsOf(allChanges) ==
    SortByAmountDesc(SelectSeq(allChanges, LAMBDA item : item.direction < 0))

\* no row of the list has a smaller changeAmount than a row after it
AmountsNeverRise(rows) ==
    \A i, j \in 1..Len(rows) : i < j => ~FracLess(rows[i].changeAmount, rows[j].changeAmount)

\* how many times a row stands in a list
TimesIn(rows, row) == Cardinality({i \in 1..Len(rows) : rows[i] = row})

\* C25: the rows getQuarterChanges returns never rise in changeAmount; neither do
\* the Add ranking and the Trim ranking made from them, and every returned row
\* stands in the two rankings together as many times as in the list
C25_RowsRankedByAmount ==
    \A rows \in Range(changeRows) :
        /\ AmountsNeverRise(rows)
        /\ AmountsNeverRise(AddRowsOf(rows))
        /\ AmountsNeverRise(CutRowsOf(rows))
        /\ Len(AddRowsOf(rows)) + Len(CutRowsOf(rows)) = Len(rows)
        /\ \A i \in 1..Len(rows) :
               TimesIn(AddRowsOf(rows), rows[i]) + TimesIn(CutRowsOf(rows), rows[i])
                   = TimesIn(rows, rows[i])

\* C25 witness: the key visited first has the smaller amount and stands second in the
\* list; one row is in the Add ranking and the other in the Trim ranking
C25_Witness ==
    /\ changeRows # <<>>
    /\ Len(changeRows[1]) = 2
    /\ AllChangeKeys(currentHoldings, previousHoldings)[1] = changeRows[1][2].key
    /\ FracLess(changeRows[1][2].changeAmount, changeRows[1][1].changeAmount)
    /\ AddRowsOf(changeRows[1]) = <<changeRows[1][2]>>
    /\ CutRowsOf(changeRows[1]) = <<changeRows[1][1]>>

\* C27: every row getQuarterChanges returns has one of the four actions, direction
\* +1 or -1 and +1 exactly for New and Add, a changeAmount that is not negative,
\* delta = direction x changeAmount and ratioSource shares or value; no row has the
\* key OTHER
C27_RowsWellFormed ==
    \A rows \in Range(changeRows) :
        \A i \in 1..Len(rows) :
            /\ rows[i].action \in ActionNames
            /\ rows[i].direction \in {1, -1}
            /\ rows[i].direction = 1 <=> rows[i].action \in {"New", "Add"}
            /\ ~FracLess(rows[i].changeAmount, Frac(0, 1))
            /\ FracEq(rows[i].delta, Frac(rows[i].direction * rows[i].changeAmount.num,
                                          rows[i].changeAmount.den))
            /\ rows[i].ratioSource \in {"shares", "value"}
            /\ rows[i].key # OTHER_KEY

\* C27 witness: the current snapshot has an OTHER row the previous one lacks, and a
\* holding cut from 1000 shares worth 50 to 500 shares worth 20: the one row is its
\* Trim, of amount 25 and delta -25, by shares
C27_Witness ==
    /\ changeRows # <<>>
    /\ \E i \in 1..Len(currentHoldings) : currentHoldings[i].key = OTHER_KEY
    /\ \A i \in 1..Len(previousHoldings) : previousHoldings[i].key # OTHER_KEY
    /\ Len(changeRows[1]) = 1
    /\ changeRows[1][1].action = "Trim"
    /\ changeRows[1][1].direction = -1
    /\ changeRows[1][1].ratioSource = "shares"
    /\ FracEq(changeRows[1][1].changeAmount, Frac(25, 1))
    /\ FracEq(changeRows[1][1].delta, Frac(-25, 1))

----------------------------------------------------------------------------
(* applyUniqueHoldingLabels on rows with and without a code.               *)

MaxHintRows == 3

\* two companies under one ticker; no code, two CUSIPs that differ in their last
\* four characters, and a code that is not a CUSIP
HintRowInputs ==
    [company : { <<"L","i","b","e","r","t","y"," ","M","e","d","i","a">>, <<"F","o","o">> }, ticker : { <<"L","M","C","A">> }, securityClass : { <<>> },
     code : { <<>>, <<"5","3","0","3","0","1","2","3","4">>, <<"5","3","0","3","0","5","6","7","8">>, <<"A">> }, displayLabel : { <<>> }]

InitLabelHints ==
    /\ labelRows \in SeqsUpTo(HintRowInputs, MaxHintRows)
    /\ labelsApplied = FALSE
    /\ SnapshotIdle
    /\ ChangesIdle
    /\ ScaleIdle
    /\ AppIdle
    /\ CalcIdle

SpecLabelHints == InitLabelHints /\ [][NextLabels]_vars

\* the base label of a row
BaseLabelOf(row) == formatAssetLabelWithClass(row.company, row.ticker, row.securityClass)

\* the labels given to the rows before row i
LabelsBefore(i) == { labelRows[j].displayLabel : j \in 1..(i - 1) }

\* the label is the candidate, or the candidate with the smallest of #2, #3, ... that
\* no earlier row has when an earlier row has the candidate
IsFirstUnused(label, candidate, i) ==
    IF candidate \notin LabelsBefore(i) THEN label = candidate
    ELSE \E bump \in 2..(MaxHintRows + 2) :
             /\ label = candidate \o <<" ","#">> \o DecimalOf(bump)
             /\ \A lower \in 2..(bump - 1) :
                    candidate \o <<" ","#">> \o DecimalOf(lower) \in LabelsBefore(i)

----------------------------------------------------------------------------
(* The focus of the treemap, the publication of the load, and the load     *)
(* among the user's events.                                                *)

\* the focus key is empty or a key of the displayed items, and the focused ids are
\* the holders listed for the focused item, none without a focus
TreemapFocusInSync ==
    /\ catalogTreemapFocusKey = <<>> \/ catalogTreemapFocusKey \in catalogTreemapItemsByKey
    /\ DOMAIN catalogTreemapHoldersByKey = catalogTreemapItemsByKey
    /\ catalogTreemapFocusInstitutionIds =
           IF catalogTreemapFocusKey = <<>> THEN {}
           ELSE catalogTreemapHoldersByKey[catalogTreemapFocusKey]

\* keys a click could carry: those of the holdings of the file and one of none
TreemapProbeKeys == { <<"A","A","P","L">>, <<"X">>, <<"0","3","7","8","3","3","1","0","0">>, <<"Z","Z">> }

\* C28: after every handler the focus key is empty or a key of the displayed items
\* and the focused ids are exactly the holders of the focused item (none without a
\* focus); a click on the focused block clears the focus, and a key that is not
\* displayed leaves no focus
C28_FocusFollowsItems ==
    /\ TreemapFocusInSync
    /\ [][ /\ TreemapFocusInSync'
           /\ \A key \in catalogTreemapItemsByKey :
                  (catalogTreemapFocusKey = key /\ ClickTreemapCellOn(key))
                      => catalogTreemapFocusKey' = <<>>
           /\ \A key \in TreemapProbeKeys \ catalogTreemapItemsByKey :
                  applyCatalogTreemapFocus(key, catalogTreemapItemsByKey) = <<>> ]_vars

\* C28 witness: the block of AAPL, held by both institutions, is focused
C28_Witness ==
    /\ loadStage = "loaded"
    /\ catalogTreemapFocusKey = <<"A","A","P","L">>
    /\ catalogTreemapFocusInstitutionIds = {"buffett", "soros"}

\* none of the five fields the load publishes has left its initial value
NothingPublished ==
    /\ secHistoryLoaded = FALSE
    /\ secHistoryById = <<>>
    /\ derivedSecTickerByCode = <<>>
    /\ derivedSecTickerByIssuer = <<>>
    /\ managerMetaById = <<>>

\* each of the five fields holds what the load builds from the managers of the file
AllPublished ==
    /\ secHistoryLoaded = TRUE
    /\ secHistoryById = HistoryOf(payload)
    /\ derivedSecTickerByCode = buildDerivedSecTickerMaps(payload).byCode
    /\ derivedSecTickerByIssuer = buildDerivedSecTickerMaps(payload).byIssuer
    /\ managerMetaById = [id \in {payload[m].id : m \in 1..Len(payload)} |->
                             CHOOSE manager \in Range(payload) : manager.id = id]

\* C29: in every state the five published fields are all initial or all built from
\* the payload, the latter only once the load has completed; a load that fails
\* leaves them and activeInvestorId, quarter and view as they were, and the page
\* goes on handling events
C29_PublishedAllOrNothing ==
    /\ NothingPublished
    /\ [][ /\ IF loadStage' = "loaded" THEN AllPublished' ELSE NothingPublished'
           /\ (loadStage # "failed" /\ loadStage' = "failed")
                  => UNCHANGED <<historyVars, activeInvestorId, stateQuarter, view>> ]_vars

\* C29 witness: the load has published the history, the vote maps and the managers
\* of a file of two institutions
C29_Witness ==
    /\ loadStage = "loaded"
    /\ secHistoryLoaded
    /\ DOMAIN secHistoryById = {"buffett", "soros"}
    /\ DOMAIN managerMetaById = {"buffett", "soros"}
    /\ derivedSecTickerByCode # <<>>

\* the ids of the managers of the file
PayloadIds == { payload[m].id : m \in 1..Len(payload) }

\* the quarters of QUARTERS an institution of INVESTORS has a filing for
AvailableQuartersOf(history, id) ==
    IF id \in Range(INVESTORS) /\ id \in DOMAIN history
    THEN { quarter \in DOMAIN history[id] : quarter \in Range(QUARTERS) }
    ELSE {}

\* the latest of them, LATEST_QUARTER when there is none
LatestAvailableQuarter(history, id) ==
    LET available == AvailableQuartersOf(history, id)
    IN  IF available = {} THEN LATEST_QUARTER
        ELSE CHOOSE quarter \in available :
                 \A other \in available : other = quarter \/ QuarterBefore(other, quarter)

\* C30: whatever the user did while the file was fetched, the step that completes
\* the load leaves view as it is, keeps activeInvestorId when the payload has it,
\* else makes it buffett when the payload has buffett, else the payload's first
\* manager id, else empty, and sets quarter to the latest available quarter of that
\* institution (LATEST_QUARTER when it has none); a card click makes the clicked
\* institution active, shows the detail view, empties the expanded set and sets
\* quarter to that institution's latest available quarter
C30_LoadAmongUserEvents ==
    [][ /\ (loadStage = "parsing" /\ loadStage' = "loaded") =>
               /\ view' = view
               /\ activeInvestorId' =
                      IF activeInvestorId \in PayloadIds THEN activeInvestorId
                      ELSE IF "buffett" \in PayloadIds THEN "buffett"
                      ELSE IF payload # <<>> THEN payload[1].id
                      ELSE ""
               /\ stateQuarter' = LatestAvailableQuarter(secHistoryById', activeInvestorId')
        /\ \A investorId \in Range(INVESTORS) :
               ClickInstitutionOn(investorId) =>
                   /\ activeInvestorId' = investorId
                   /\ view' = "detail"
                   /\ expanded' = {}
                   /\ stateQuarter' = LatestAvailableQuarter(secHistoryById', investorId) ]_vars

\* C30 witness: the load is complete and the card of soros was clicked, before it
\* or after it; the page shows soros at its latest quarter, and Expand All has since
\* put soros in the expanded set, which the next card click empties
C30_Witness ==
    /\ loadStage = "loaded"
    /\ view = "detail"
    /\ activeInvestorId = "soros"
    /\ stateQuarter = Quarter(START_YEAR, 1)
    /\ expanded = {"soros"}

====
